---- MODULE Spec2Model ----
(***************************************************************************)
(* MULTILU: TAUCS's unsymmetric multifrontal LU solver.                    *)
(* State-machine model of taucs_multilu.c: the symbolic analysis           *)
(* (elimination analysis, postorder, supercolumn detection and relaxation, *)
(* completion of the supercolumn etree) followed by the numeric            *)
(* factorization over the supercolumn etree.  Matrices are modelled by     *)
(* their nonzero pattern; all indices are zero based as in the C source.   *)
(***************************************************************************)
EXTENDS Integers, Sequences, FiniteSets, TLC

(***************************************************************************)
(* Program constants                                                       *)
(***************************************************************************)
MULTILU_SYMBOLIC_NONE == -1
MULTILU_MAX_SUPERCOL_SIZE == -1
MULTILU_MAX_OVERFILL_RATIO == 2
MULTILU_RELAX_RULE_SIZE == 20
MULTILU_EAN_BUFFER == 2
MULTILU_MIN_COVER_SPRS_SPAWN == -1

NONE == MULTILU_SYMBOLIC_NONE

(***************************************************************************)
(* Bounds of the model                                                     *)
(***************************************************************************)
\* order of the small matrices whose columns are enumerated exhaustively
SmallN == 2
\* most nonzeros in a column of a small matrix
MaxColNnz == 2
\* number of columns of a wide block of a block-chain matrix
ChainLen == 10
\* allocation or pivoting failures injected into one numeric factorization
MaxFailures == 1

(***************************************************************************)
(* Helpers                                                                 *)
(***************************************************************************)
max(a, b) == IF a > b THEN a ELSE b
min(a, b) == IF a < b THEN a ELSE b

\* the elements of a finite set of integers as an increasing sequence
RECURSIVE SortedSeq(_)
SortedSeq(S) ==
  IF S = {} THEN <<>>
  ELSE LET m == CHOOSE x \in S : \A y \in S : x <= y
       IN <<m>> \o SortedSeq(S \ {m})

\* for (i = lo; i <= hi; i++) x = body(x, i), evaluated by halves: the first
\* half is computed to a value before the second half starts from it
RECURSIVE For(_, _, _, _)
For(body(_, _), x, lo, hi) ==
  IF lo > hi THEN x
  ELSE IF lo = hi THEN body(x, lo)
  ELSE LET mid == (lo + hi) \div 2
       IN CHOOSE r \in { For(body, y, mid + 1, hi) :
                           y \in { For(body, x, lo, mid) } } : TRUE

\* while (cond(x)) x = body(x), for a loop that ends within most iterations
While(cond(_), body(_), x, most) ==
  For(LAMBDA y, i : IF cond(y) THEN body(y) ELSE y, x, 1, most)

SeqSum(f, lo, hi) == For(LAMBDA acc, i : acc + f[i], 0, lo, hi)

\* a local variable: e is computed once and body reads it as v
Let(e, body(_)) == body(e)

(***************************************************************************)
(* Input matrices (taucs_ccs_matrix, pattern only).  A matrix is a record  *)
(* [n, cols] where cols[j] is the slice rowind[colptr[j] .. colptr[j+1])   *)
(* of column j.                                                            *)
(***************************************************************************)
\* small matrices: every column holds between 1 and MaxColNnz rows
ColPatterns(n) ==
  { SortedSeq(S) : S \in { T \in SUBSET (0 .. n - 1) :
                             T # {} /\ Cardinality(T) <= MaxColNnz } }

SmallMatrices ==
  UNION { { [n |-> n, cols |-> c] : c \in [0 .. n - 1 -> ColPatterns(n)] }
          : n \in 1 .. SmallN }

\* block-chain matrices: three diagonal blocks, block b lower bidiagonal of
\* order w[b]; a coupling <<i, j>> puts the first row of block i into the
\* last column of block j.
Blocks == 0 .. 2
Couplings == { <<1, 0>>, <<2, 0>>, <<2, 1>>, <<0, 2>> }
Widths == { w \in [Blocks -> {1, ChainLen}] : \E b \in Blocks : w[b] > 1 }

BlockStart(w, b) == SeqSum(w, 0, b - 1)

BlockMatrix(w, cpl) ==
  LET n == SeqSum(w, 0, 2)
      blockOf(j) == CHOOSE b \in Blocks :
                      BlockStart(w, b) <= j /\ j < BlockStart(w, b) + w[b]
      rowsOf(j) ==
        LET b == blockOf(j)
            last == BlockStart(w, b) + w[b] - 1
        IN {j} \cup (IF j < last THEN {j + 1} ELSE {})
               \cup (IF j = last
                     THEN { BlockStart(w, c[1]) : c \in { d \in cpl : d[2] = b } }
                     ELSE {})
  IN [n |-> n, cols |-> [j \in 0 .. n - 1 |-> SortedSeq(rowsOf(j))]]

BlockMatrices ==
  { BlockMatrix(w, cpl) : w \in Widths, cpl \in SUBSET Couplings }

\* column preorders handed in by the caller: identity and reversal
Orders(n) == { [i \in 0 .. n - 1 |-> i], [i \in 0 .. n - 1 |-> n - 1 - i] }

Nnz(M) == SeqSum([j \in 0 .. M.n - 1 |-> Len(M.cols[j])], 0, M.n - 1)

\* the literal matrices of the end-to-end scenarios
DiagMatrix == [n |-> 4, cols |-> [j \in 0 .. 3 |-> <<j>>]]
ArrowMatrix ==
  [n |-> 6, cols |-> [j \in 0 .. 5 |-> IF j < 5 THEN <<j, 5>>
                                       ELSE <<0, 1, 2, 3, 4, 5>>]]
IdentityOrder(n) == [i \in 0 .. n - 1 |-> i]

\* a matrix whose supercolumn etree branches: a chain of 20 columns with an
\* extra row in column 9, closed by columns that couple its two ends
BranchMatrix ==
  [n |-> 24, cols |-> [j \in 0 .. 23 |->
                         IF j = 9 THEN <<9, 10, 22>>
                         ELSE IF j = 19 THEN <<19, 23>>
                         ELSE IF j = 20 THEN <<0, 20>>
                         ELSE IF j = 21 THEN <<21>>
                         ELSE IF j = 22 THEN <<22>>
                         ELSE IF j = 23 THEN <<0, 21, 22, 23>>
                         ELSE <<j, j + 1>>]]

\* a matrix without empty column in which two columns hold the same single
\* row
SingularMatrix ==
  [n |-> 3, cols |-> [j \in 0 .. 2 |-> IF j = 2 THEN <<1, 2>> ELSE <<0>>]]

\* the calls made by the application: a matrix and a column preorder
Inputs ==
  UNION { { [A |-> M, column_order |-> o] : o \in Orders(M.n) } :
            M \in SmallMatrices \cup BlockMatrices
                   \cup {BranchMatrix, SingularMatrix} }
  \cup { [A |-> DiagMatrix, column_order |-> IdentityOrder(4)],
         [A |-> ArrowMatrix, column_order |-> IdentityOrder(6)] }

\* rowind_column[i] of column org_col (a C array, zero based)
rowind(M, org_col, i) == M.cols[org_col][i + 1]
nnz_column(M, org_col) == Len(M.cols[org_col])

\* an int array of the given length whose cells all hold v
IntArray(len, v) == [i \in 0 .. len - 1 |-> v]

(***************************************************************************)
(* Union-find library (compiled without _UF_UNION_BY_RANK)                 *)
(***************************************************************************)
\* sets that start united
uf_make_sets_united(sets_num) == [i \in 0 .. sets_num - 1 |-> 0]

uf_make_sets(sets_num) == [i \in 0 .. sets_num - 1 |-> i]

\* the representative of x, and the array after path compression
uf_find(sets, x) ==
  LET RECURSIVE rep(_)
      rep(y) == IF sets[y] = y THEN y ELSE rep(sets[y])
      RECURSIVE compress(_, _, _)
      compress(st, y, r) ==
        IF sets[y] = y THEN st
        ELSE compress([st EXCEPT ![y] = r], sets[y], r)
  IN Let(rep(x), LAMBDA r : [rep |-> r, sets |-> compress(sets, x, r)])

uf_union(sets, x, y) == [rep |-> y, sets |-> [sets EXCEPT ![x] = y]]

(***************************************************************************)
(* Elimination analysis (column etree and per-column bounds)               *)
(***************************************************************************)
\* memcpy of len ints inside one array.  The regions may overlap, which the
\* C standard leaves undefined: the copy runs front to back or back to front.
memcpy(workspace, dst, src, len, backward) ==
  For(LAMBDA ws, done :
        LET k == IF backward THEN len - 1 - done ELSE done
        IN [ws EXCEPT ![dst + k] = ws[src + k]],
      workspace, 0, len - 1)

\* the live elements ordered by their start (qsort with cmp_el_location);
\* elements of equal start are empty but for one, their order has no effect
el_loc_sorted(live, el_start) ==
  LET before(x, y) == \/ el_start[x] < el_start[y]
                      \/ (el_start[x] = el_start[y] /\ x < y)
      rank(x) == Cardinality({ y \in live : before(y, x) })
  IN [k \in 1 .. Cardinality(live) |-> CHOOSE x \in live : rank(x) = k - 1]

garbage_collect(workspace, el_start, el_size, el_cleared, el_num, backward) ==
  Let(el_loc_sorted({ i \in 0 .. el_num - 1 : ~el_cleared[i] }, el_start),
      LAMBDA el_loc :
        For(LAMBDA g, i :
              LET el == el_loc[i]
              IN [workspace |-> memcpy(g.workspace, g.loc, el_start[el],
                                       el_size[el], backward),
                  el_start |-> [g.el_start EXCEPT ![el] = g.loc],
                  loc |-> g.loc + el_size[el]],
            [workspace |-> workspace, el_start |-> el_start, loc |-> 0],
            1, Len(el_loc)))

\* a row-pattern pool without the buffer
WorkspaceSize_unbuffered(M) == Nnz(M)

\* size of the row-pattern pool
WorkspaceSize(M) == Nnz(M) + MULTILU_EAN_BUFFER * M.n

\* the initialisations of elimination_analysis: the rows are counted, laid
\* out one after the other, and the pattern of every row is written
count_rows(M) ==
  For(LAMBDA sz, i :
        For(LAMBDA t, j : [t EXCEPT ![rowind(M, i, j)] = @ + 1],
            sz, 0, nnz_column(M, i) - 1),
      IntArray(M.n, 0), 0, M.n - 1)

starts_of(rows_size, m) ==
  For(LAMBDA st, i : [st EXCEPT ![i] = st[i - 1] + rows_size[i - 1]],
      IntArray(m, 0), 1, m - 1)

fill_rows(M, rows_start) ==
  For(LAMBDA f, i :
        For(LAMBDA t, j :
              LET row == rowind(M, i, j)
                  index == rows_start[row] + t.rows_size[row]
              IN [t EXCEPT !.row_workspace[index] = i,
                           !.rows_size[row] = @ + 1],
            f, 0, nnz_column(M, i) - 1),
      [row_workspace |-> IntArray(WorkspaceSize(M), NONE),
       rows_size |-> IntArray(M.n, 0)],
      0, M.n - 1)

\* state of elimination_analysis when it enters its column loop
ea_init(M) ==
  LET n == M.n
  IN Let(starts_of(count_rows(M), n), LAMBDA start0 :
     Let(fill_rows(M, start0), LAMBDA f :
     [col |-> 0,
      next_row |-> Nnz(M),
      firstcol |-> IntArray(n, n),
      root |-> IntArray(n, NONE),
      rdegs |-> IntArray(n, NONE),
      rnums |-> IntArray(n, NONE),
      sets |-> uf_make_sets(n),
      col_cleared |-> [i \in 0 .. n - 1 |-> FALSE],
      row_cleared |-> [i \in 0 .. n - 1 |-> FALSE],
      col_mmb |-> [i \in 0 .. n - 1 |-> FALSE],
      row_workspace |-> f.row_workspace,
      rows_start |-> start0,
      rows_size |-> f.rows_size,
      overflow |-> FALSE]))

\* append to the row being built, at row_start, the columns of pattern src
\* that are neither eliminated nor already members
merge_row_pattern(w, row_start, src) ==
  For(LAMBDA x, j :
        LET c == x.ea.row_workspace[x.ea.rows_start[src] + j]
            at == row_start + x.row_size
        IN IF ~x.ea.col_cleared[c] /\ ~x.ea.col_mmb[c]
           THEN [x EXCEPT !.ea.row_workspace[at] = c,
                          !.ea.overflow = @ \/ at \notin DOMAIN x.ea.row_workspace,
                          !.ea.col_mmb[c] = TRUE,
                          !.row_size = @ + 1]
           ELSE x,
      w, 0, w.ea.rows_size[src] - 1)

\* nonzero i of column col: a row seen for the first time joins the row
\* being built, a row of another subtree brings the merged row of that subtree
ea_nonzero(w, M, org_col, col, row_start, i) ==
  LET row == rowind(M, org_col, i)
      fcol == w.ea.firstcol[row]
  IN IF fcol = M.n
     THEN [merge_row_pattern([w EXCEPT !.ea.firstcol[row] = col,
                                       !.ea.rdegs[w.cset] = @ + 1],
                             row_start, row)
             EXCEPT !.ea.row_cleared[row] = TRUE]
     ELSE Let(uf_find(w.ea.sets, fcol), LAMBDA f :
          LET rset == f.rep
              rroot == w.ea.root[rset]
              rnum == w.ea.rnums[rset]
          IN IF rroot # col
             THEN Let(merge_row_pattern([w EXCEPT !.ea.sets = f.sets],
                                        row_start, rnum),
                      LAMBDA w2 :
                  LET cset_old == w2.cset
                      u == uf_union(w2.ea.sets, cset_old, rset)
                      cset == u.rep
                  IN [w2 EXCEPT !.ea.row_cleared[rnum] = TRUE,
                                !.parent[rroot] = col,
                                !.ea.sets = u.sets,
                                !.cset = cset,
                                !.ea.rdegs[cset] =
                                   w2.ea.rdegs[cset_old] + w2.ea.rdegs[rset],
                                !.ea.root[cset] = col])
             ELSE [w EXCEPT !.ea.sets = f.sets])

\* one iteration of the column loop of elimination_analysis; parent is the
\* array the caller handed in, the result carries the three output cells
ea_column(M, order, e, parent, backward) ==
  LET n == M.n
      col == e.col
      org_col == order[col]
      rnum == rowind(M, org_col, 0)
      collected(g) == [e EXCEPT !.row_workspace = g.workspace,
                                !.rows_start = g.el_start,
                                !.next_row = g.loc]
  IN Let(IF e.next_row + n - col > Nnz(M) + MULTILU_EAN_BUFFER * n
         THEN collected(garbage_collect(e.row_workspace, e.rows_start,
                                        e.rows_size, e.row_cleared, n, backward))
         ELSE e,
         LAMBDA e0 :
     Let(For(LAMBDA x, i : ea_nonzero(x, M, org_col, col, e0.next_row, i),
             [ea |-> [e0 EXCEPT !.root[col] = col, !.rdegs[col] = 0],
              parent |-> [parent EXCEPT ![col] = n],
              cset |-> col,
              row_size |-> 0],
             0, nnz_column(M, org_col) - 1),
         LAMBDA w :
     Let({ w.ea.row_workspace[e0.next_row + j] :
             j \in { k \in 0 .. w.row_size - 1 :
                       e0.next_row + k \in DOMAIN w.ea.row_workspace } },
         LAMBDA built :
     [ea |-> [w.ea EXCEPT !.rdegs[w.cset] = max(0, @ - 1),
                          !.rnums[w.cset] = rnum,
                          !.rows_start[rnum] = e0.next_row,
                          !.rows_size[rnum] = w.row_size,
                          !.row_cleared[rnum] = FALSE,
                          !.col_mmb = [c \in DOMAIN @ |->
                                         IF c \in built THEN FALSE ELSE @[c]],
                          !.next_row = e0.next_row + w.row_size,
                          !.col_cleared[org_col] = TRUE,
                          !.col = col + 1],
      parent |-> w.parent,
      l_size |-> w.ea.rdegs[w.cset],
      u_size |-> w.row_size])))

(***************************************************************************)
(* Depth-first postorder of the column etree                               *)
(***************************************************************************)
\* the children lists built from parent[], the virtual root being n
child_lists(parent, first_child, next_child, n) ==
  For(LAMBDA t, k :
        LET i == n - 1 - k
            p == parent[i]
        IN [first_child |-> [t.first_child EXCEPT ![p] = i],
            next_child |-> [t.next_child EXCEPT ![i] = t.first_child[p]]],
      [first_child |-> first_child, next_child |-> next_child], 0, n - 1)

\* the descendants counted below the children from child on
RECURSIVE desc_sum(_, _, _)
desc_sum(desc_count, next_child, child) ==
  IF child = NONE THEN 0
  ELSE desc_count[child] + desc_sum(desc_count, next_child, next_child[child])

\* one turn of the loop of df_postorder: go down to the next child, or
\* number the vertex on top of the stack and move to its brother
df_step(d, first_child, next_child, root) ==
  IF d.stack_child[d.depth] # NONE
  THEN [d EXCEPT !.stack_vertex[d.depth + 1] = d.stack_child[d.depth],
                 !.stack_child[d.depth + 1] =
                     first_child[d.stack_child[d.depth]],
                 !.depth = @ + 1]
  ELSE LET vertex == d.stack_vertex[d.depth]
           depth == d.depth - 1
       IN Let(IF vertex # root
              THEN [d EXCEPT !.postorder[d.postnum] = vertex,
                             !.desc_count[vertex] =
                                 1 + desc_sum(d.desc_count, next_child,
                                              first_child[vertex]),
                             !.postnum = @ + 1]
              ELSE d,
              LAMBDA d1 :
                IF depth >= 0
                THEN [d1 EXCEPT !.depth = depth,
                                !.stack_child[depth] =
                                    next_child[d1.stack_child[depth]]]
                ELSE [d1 EXCEPT !.depth = depth])

df_postorder(first_child, next_child, root) ==
  While(LAMBDA d : d.depth >= 0,
        LAMBDA d : df_step(d, first_child, next_child, root),
        [depth |-> 0,
         postnum |-> 0,
         stack_vertex |-> [IntArray(root + 1, NONE) EXCEPT ![0] = root],
         stack_child |-> [IntArray(root + 1, NONE) EXCEPT ![0] = first_child[root]],
         postorder |-> IntArray(root, NONE),
         desc_count |-> IntArray(root, NONE)],
        2 * root + 1)

(***************************************************************************)
(* Supercolumn detection and relaxation                                    *)
(***************************************************************************)
\* state of detect_supercol when it enters its column loop
ds_init(n) ==
  [col |-> 0,
   fsc_num |-> -1,
   firstcol |-> IntArray(n, n),
   root |-> IntArray(n, NONE),
   map_col_supercol |-> IntArray(n, NONE),
   lastcol |-> IntArray(n, NONE),
   sets |-> uf_make_sets(n),
   max_lsize |-> 0, max_usize |-> 0,
   sc_lsize |-> 0, sc_usize |-> 0,
   fsc_parent |-> IntArray(n, NONE),
   fsc_lastcol |-> IntArray(n, NONE)]

\* nonzero i of column col in detect_supercol: the subtree of a row seen
\* before gets col as the parent of its supercolumn
ds_nonzero(w, M, org_col, col, i) ==
  LET row == rowind(M, org_col, i)
      fcol == w.ds.firstcol[row]
  IN IF fcol = M.n
     THEN [w EXCEPT !.ds.firstcol[row] = col]
     ELSE Let(uf_find(w.ds.sets, fcol), LAMBDA f :
          LET rset == f.rep
              rroot == w.ds.root[rset]
          IN IF rroot # col
             THEN LET u == uf_union(f.sets, w.cset, rset)
                  IN [w EXCEPT
                        !.sc_parent[w.ds.map_col_supercol[rroot]] = col,
                        !.ds.sets = u.sets,
                        !.cset = u.rep,
                        !.ds.root[u.rep] = col]
             ELSE [w EXCEPT !.ds.sets = f.sets])

\* the chain test that breaks a supercolumn on overfill
overfill(sc_lsize, sc_usize, inc_sc_size, max_lsize, max_usize) ==
  \/ sc_lsize * inc_sc_size > MULTILU_MAX_OVERFILL_RATIO * max_lsize
  \/ sc_usize * inc_sc_size > MULTILU_MAX_OVERFILL_RATIO * max_usize

\* one iteration of the column loop of detect_supercol
ds_column(M, order, one_child, l_size, u_size, postorder, d, sc_size, sc_parent) ==
  LET col == d.col
      org_col == order[col]
      new0 == \/ ~one_child[col]
              \/ sc_size[d.fsc_num] = MULTILU_MAX_SUPERCOL_SIZE
      l == l_size[postorder[col]]
      u == u_size[postorder[col]]
      inc_sc_size == sc_size[d.fsc_num] + 1
      max_lsize == d.max_lsize + l
      max_usize == d.max_usize + u
      sc_lsize == max(d.sc_lsize, l + sc_size[d.fsc_num])
      sc_usize == max(d.sc_usize, u + sc_size[d.fsc_num])
      new_supercol ==
        new0 \/ overfill(sc_lsize, sc_usize, inc_sc_size, max_lsize, max_usize)
      fsc_num == IF new_supercol THEN d.fsc_num + 1 ELSE d.fsc_num
  IN Let(For(LAMBDA x, i : ds_nonzero(x, M, org_col, col, i),
             [ds |-> [d EXCEPT !.root[col] = col],
              sc_parent |-> sc_parent,
              cset |-> col],
             0, nnz_column(M, org_col) - 1),
         LAMBDA w :
     [ds |-> [w.ds EXCEPT
                !.fsc_num = fsc_num,
                !.lastcol[fsc_num] = col,
                !.map_col_supercol[col] = fsc_num,
                !.max_lsize = IF new_supercol THEN l ELSE max_lsize,
                !.max_usize = IF new_supercol THEN u ELSE max_usize,
                !.sc_lsize = IF new_supercol THEN l ELSE sc_lsize,
                !.sc_usize = IF new_supercol THEN u ELSE sc_usize,
                !.col = col + 1],
      sc_size |-> [sc_size EXCEPT ![fsc_num] = IF new_supercol THEN 1 ELSE @ + 1],
      sc_parent |-> w.sc_parent])

\* every fundamental supercolumn made a child of the last one
correct_parents_to_last(sc_parent, map_col_supercol, fsc_num) ==
  [i \in DOMAIN sc_parent |->
     IF i < fsc_num - 1 THEN fsc_num - 1
     ELSE IF i = fsc_num - 1 THEN NONE ELSE sc_parent[i]]

\* parents of the fundamental supercolumns: columns mapped to supercolumns
correct_parents(sc_parent, map_col_supercol, fsc_num) ==
  For(LAMBDA sp, i :
        LET p == IF sp[i] # NONE THEN map_col_supercol[sp[i]] ELSE NONE
        IN [sp EXCEPT ![i] = IF p = i THEN NONE ELSE p],
      sc_parent, 0, fsc_num - 1)

\* closes_cluster without the relaxation rule: every fundamental
\* supercolumn that has a parent stays a supercolumn of its own
closes_cluster_unrelaxed(sc_parent, desc_count, lastcol, i) ==
  sc_parent[i] # NONE

\* closes_cluster looking at the descendants of i, not of its parent
closes_cluster_by_own_count(sc_parent, desc_count, lastcol, i) ==
  /\ sc_parent[i] # NONE
  /\ desc_count[lastcol[i]] >= MULTILU_RELAX_RULE_SIZE

\* does fundamental supercolumn i close the relaxed cluster it is in
closes_cluster(sc_parent, desc_count, lastcol, i) ==
  /\ sc_parent[i] # NONE
  /\ desc_count[lastcol[sc_parent[i]]] >= MULTILU_RELAX_RULE_SIZE

\* a relaxation loop that closes a cluster at every fundamental supercolumn
relax_none(r0, sc_parent, desc_count, fsc_num) ==
  For(LAMBDA r, i :
        [r EXCEPT !.map_fsc_rsc[i] = r.sc_num,
                  !.lastcol[r.sc_num] = i,
                  !.sc_size[r.sc_num] = r.sc_size[i],
                  !.sc_num = @ + 1],
      r0, 0, fsc_num - 1)

\* the relaxation loop; map_fsc_rsc shares the array of map_col_supercol
relax(r0, sc_parent, desc_count, fsc_num) ==
  Let(For(LAMBDA r, i :
            LET cscs == r.cscs + r.sc_size[i]
                r1 == [r EXCEPT !.cscs = cscs,
                                !.map_fsc_rsc[i] = r.sc_num,
                                !.lastcol[r.sc_num] = i]
            IN IF closes_cluster(sc_parent, desc_count, r1.lastcol, i)
               THEN [r1 EXCEPT !.sc_size[r.sc_num] = cscs,
                               !.cscs = 0,
                               !.sc_num = @ + 1]
               ELSE r1,
          r0, 0, fsc_num - 1),
      LAMBDA r9 : [r9 EXCEPT !.sc_size[r9.sc_num] = r9.cscs, !.sc_num = @ + 1])

\* relaxed_parents reading the parent of fundamental supercolumn i, not of
\* the last fundamental supercolumn of cluster i
relaxed_parents_of_first(sc_parent, lastcol, map_fsc_rsc, sc_num) ==
  For(LAMBDA sp, i :
        LET org_parent == sp[i]
        IN [sp EXCEPT ![i] = IF org_parent # NONE
                             THEN map_fsc_rsc[org_parent] ELSE NONE],
      sc_parent, 0, sc_num - 1)

\* parents of the relaxed supercolumns, rewritten in place
relaxed_parents(sc_parent, lastcol, map_fsc_rsc, sc_num) ==
  For(LAMBDA sp, i :
        LET org_parent == sp[lastcol[i]]
        IN [sp EXCEPT ![i] = IF org_parent # NONE
                             THEN map_fsc_rsc[org_parent] ELSE NONE],
      sc_parent, 0, sc_num - 1)

(***************************************************************************)
(* Bounds of the supercolumns and completion of the symbolic data          *)
(***************************************************************************)
\* max over the columns j of a supercolumn of size[postorder[first + j]] + j
supercolumn_bound(size, postorder, firstcol_ind, sc_size) ==
  For(LAMBDA b, j : max(b, size[postorder[firstcol_ind + j]] + j),
      0, 0, sc_size - 1)

\* start_end with each supercolumn starting on the end of the one before
start_end_overlapping(start, end, size, s) ==
  For(LAMBDA t, i :
        LET st == t.end[i - 1]
        IN [start |-> [t.start EXCEPT ![i] = st],
            end |-> [t.end EXCEPT ![i] = st + size[i] - 1]],
      [start |-> [start EXCEPT ![0] = 0],
       end |-> [end EXCEPT ![0] = size[0] - 1]],
      1, s - 1)

\* start and end of the supercolumns from their sizes
start_end(start, end, size, s) ==
  For(LAMBDA t, i :
        LET st == t.end[i - 1] + 1
        IN [start |-> [t.start EXCEPT ![i] = st],
            end |-> [t.end EXCEPT ![i] = st + size[i] - 1]],
      [start |-> [start EXCEPT ![0] = 0],
       end |-> [end EXCEPT ![0] = size[0] - 1]],
      1, s - 1)

\* the child lists and the roots of the supercolumn etree
build_child_list(etree, s) ==
  For(LAMBDA e, i :
        LET parent == e.parent[i]
        IN IF parent = NONE
           THEN [e EXCEPT !.next_child[i] = e.first_root,
                          !.first_root = i]
           ELSE [e EXCEPT !.next_child[i] = e.first_child[parent],
                          !.first_child[parent] = i],
      etree, 0, s - 1)

\* desc_sets with every child overwriting the first descendant of its parent
desc_sets_last_child(etree, s) ==
  For(LAMBDA e, i :
        LET parent == e.parent[i]
            fd == e.first_desc_index
            e1 == IF fd[i] # NONE
                  THEN [e EXCEPT !.last_desc_index[i] = i - 1]
                  ELSE e
        IN IF parent # NONE
           THEN [e1 EXCEPT !.first_desc_index[parent] =
                              IF fd[i] = NONE THEN i ELSE fd[i]]
           ELSE e1,
      etree, 0, s - 1)

\* the descendant ranges, one pass in postorder
desc_sets(etree, s) ==
  For(LAMBDA e, i :
        LET parent == e.parent[i]
            fd == e.first_desc_index
            e1 == IF fd[i] # NONE
                  THEN [e EXCEPT !.last_desc_index[i] = i - 1]
                  ELSE e
        IN IF parent # NONE /\ fd[parent] = NONE
           THEN [e1 EXCEPT !.first_desc_index[parent] =
                              IF fd[i] = NONE THEN i ELSE fd[i]]
           ELSE e1,
      etree, 0, s - 1)

covered_columns(covered, size, parent, s) ==
  For(LAMBDA cv, i :
        LET c == cv[i] + size[i]
            c1 == [cv EXCEPT ![i] = c]
        IN IF parent[i] # NONE THEN [c1 EXCEPT ![parent[i]] = @ + c] ELSE c1,
      covered, 0, s - 1)

complete_symbolic(sym) ==
  LET s == sym.number_supercolumns
      reset(a) == [i \in DOMAIN a |-> IF i < s THEN NONE ELSE a[i]]
      e0 == [sym.etree EXCEPT !.first_root = NONE,
                              !.first_child = reset(@),
                              !.next_child = reset(@),
                              !.first_desc_index = reset(@),
                              !.last_desc_index = reset(@)]
  IN Let(start_end(sym.start_supercolumn, sym.end_supercolumn,
                   sym.supercolumn_size, s),
         LAMBDA se :
     [sym EXCEPT
        !.start_supercolumn = se.start,
        !.end_supercolumn = se.end,
        !.assert_failed = se.end[s - 1] # sym.n - 1,
        !.etree = desc_sets(build_child_list(e0, s), s),
        !.supercolumn_covered_columns =
           covered_columns([i \in DOMAIN @ |-> IF i < s THEN 0 ELSE @[i]],
                           sym.supercolumn_size, sym.etree.parent, s)])

(***************************************************************************)
(* State                                                                   *)
(***************************************************************************)
VARIABLES
  A,             \* the matrix handed to the symbolic and numeric phases
  column_order,  \* the column preorder handed to the symbolic phase
  pc,            \* the step the program is at
  ea,            \* the scratch arrays of elimination_analysis
  locals,        \* the scratch arrays of taucs_ccs_factor_lu_symbolic
  ds,            \* the scratch arrays of detect_supercol
  symbolic,      \* the taucs_multilu_symbolic under construction
  mcontext,      \* the multilu_context of the numeric phase
  max_depth,     \* the depth limit handed to the numeric phase
  loop_i,        \* the supercolumn the sequential loop is at
  task,          \* per supercolumn, its recursive_factorize_supercolumn call
  F,             \* what the numeric phase returned
  heap,          \* the arrays of the symbolic phase that are allocated
  solve          \* the last call of taucs_multilu_solve_many

vars == <<A, column_order, pc, ea, locals, ds, symbolic,
          mcontext, max_depth, loop_i, task, F, heap, solve>>

numeric_vars == <<mcontext, max_depth, loop_i, task, F>>

solve_vars == <<solve>>

\* the structure returned by allocate_symbolic: arrays of n + 1 cells
allocate_symbolic(n) ==
  [n |-> n,
   number_supercolumns |-> NONE,
   columns |-> IntArray(n + 1, NONE),
   start_supercolumn |-> IntArray(n + 1, NONE),
   end_supercolumn |-> IntArray(n + 1, NONE),
   supercolumn_size |-> IntArray(n + 1, NONE),
   supercolumn_covered_columns |-> IntArray(n + 1, NONE),
   l_size |-> IntArray(n + 1, NONE),
   u_size |-> IntArray(n + 1, NONE),
   assert_failed |-> FALSE,
   etree |-> [first_root |-> NONE,
              parent |-> IntArray(n + 1, NONE),
              first_child |-> IntArray(n + 1, NONE),
              next_child |-> IntArray(n + 1, NONE),
              first_desc_index |-> IntArray(n + 1, NONE),
              last_desc_index |-> IntArray(n + 1, NONE)]]

\* the arrays taucs_ccs_factor_lu_symbolic allocates for itself
symbolic_locals(n) ==
  [l_size |-> IntArray(n + 1, NONE),
   u_size |-> IntArray(n + 1, NONE),
   postorder |-> IntArray(n, NONE),
   desc_count_org |-> IntArray(n, NONE),
   one_child |-> [i \in 0 .. n - 1 |-> FALSE],
   desc_count |-> IntArray(n, NONE)]

\* the structure and the arrays allocate_symbolic allocates
allocate_symbolic_arrays ==
  {"symbolic", "symbolic.etree.parent", "symbolic.etree.first_child",
   "symbolic.etree.next_child", "symbolic.etree.first_desc_index",
   "symbolic.etree.last_desc_index", "symbolic.columns",
   "symbolic.start_supercolumn", "symbolic.end_supercolumn",
   "symbolic.supercolumn_size", "symbolic.supercolumn_covered_columns",
   "symbolic.l_size", "symbolic.u_size"}

\* what taucs_multilu_symbolic_free hands to taucs_free
symbolic_free_arrays ==
  {"symbolic.etree.parent", "symbolic.etree.first_child",
   "symbolic.etree.next_child", "symbolic.etree.first_desc_index",
   "symbolic.etree.last_desc_index", "symbolic.start_supercolumn",
   "symbolic.end_supercolumn", "symbolic.supercolumn_size",
   "symbolic.columns", "symbolic.l_size", "symbolic.u_size", "symbolic"}

\* the scratch arrays taucs_ccs_factor_lu_symbolic allocates, and those it
\* frees at free_and_exit
symbolic_scratch ==
  {"l_size", "u_size", "postorder", "desc_count_org", "one_child",
   "desc_count"}

symbolic_scratch_freed ==
  {"l_size", "u_size", "postorder", "desc_count_org", "one_child"}

\* the scratch arrays of elimination_analysis, and those it frees
elimination_scratch ==
  {"ea.firstcol", "ea.root", "ea.rdegs", "ea.rnums", "ea.sets",
   "ea.col_cleared", "ea.row_cleared", "ea.col_mmb", "ea.row_workspace",
   "ea.rows_start", "ea.rows_size"}

elimination_scratch_freed ==
  {"ea.root", "ea.firstcol", "ea.sets", "ea.rdegs", "ea.col_cleared",
   "ea.row_cleared", "ea.rnums", "ea.row_workspace", "ea.rows_size",
   "ea.col_mmb"}

\* the two stacks of df_postorder, and those it frees
postorder_scratch == {"df.stack_vertex", "df.stack_child"}

postorder_scratch_freed == {"df.stack_vertex", "df.stack_child"}

\* the scratch arrays of detect_supercol, and those it frees
detect_scratch ==
  {"ds.firstcol", "ds.map_col_supercol", "ds.lastcol", "ds.root", "ds.sets"}

detect_scratch_freed ==
  {"ds.root", "ds.firstcol", "ds.sets", "ds.map_col_supercol", "ds.lastcol"}

\* the context before multilu_context_create has run
no_context ==
  [nproc |-> 0, rule |-> "none", At |-> <<>>, row_cleared |-> <<>>,
   column_cleared |-> <<>>, map_rows |-> <<>>, map_cols |-> <<>>,
   start_free_map_cols |-> 0, blocks |-> <<>>, lu_failed |-> {},
   failures |-> 0, fault |-> "none", uninit |-> FALSE, steps |-> <<>>,
   rank_k |-> <<>>, align_log |-> {}, assembled |-> {}, reassembled |-> {},
   touched |-> <<>>, inlet |-> <<>>]

Init ==
  /\ \E in \in Inputs : A = in.A /\ column_order = in.column_order
  /\ pc = "elimination_analysis"
  /\ ea = ea_init(A)
  /\ locals = symbolic_locals(A.n)
  /\ ds = ds_init(A.n)
  /\ symbolic = allocate_symbolic(A.n)
  /\ mcontext = no_context
  /\ max_depth = 0
  /\ loop_i = 0
  /\ task = <<>>
  /\ F = [null |-> TRUE, blocks |-> <<>>]
  /\ heap = allocate_symbolic_arrays \cup symbolic_scratch
              \cup elimination_scratch
  /\ solve = [called |-> FALSE]

(***************************************************************************)
(* The symbolic phase, taucs_ccs_factor_lu_symbolic                        *)
(***************************************************************************)
\* one column of elimination_analysis
EliminationColumn ==
  /\ pc = "elimination_analysis"
  /\ ea.col < A.n
  /\ \E backward \in BOOLEAN :
       \E r \in { ea_column(A, column_order, ea, symbolic.etree.parent,
                            backward) } :
          /\ ea' = r.ea
          /\ symbolic' = [symbolic EXCEPT !.etree.parent = r.parent]
          /\ locals' = [locals EXCEPT !.l_size[ea.col] = r.l_size,
                                      !.u_size[ea.col] = r.u_size]
  /\ UNCHANGED numeric_vars
  /\ UNCHANGED solve_vars
  /\ UNCHANGED <<A, column_order, pc, ds, heap>>

\* the column etree as child lists, its postorder, and the reordering
Postorder ==
  /\ pc = "elimination_analysis"
  /\ ea.col = A.n
  /\ \E cl \in { child_lists(symbolic.etree.parent, IntArray(A.n + 1, NONE),
                               symbolic.etree.next_child, A.n) } :
     \E po \in { df_postorder(cl.first_child, cl.next_child, A.n) } :
     LET n == A.n
     IN /\ symbolic' =
             [symbolic EXCEPT
                !.etree.first_child = cl.first_child,
                !.etree.next_child = cl.next_child,
                !.columns = [i \in DOMAIN @ |->
                               IF i < n THEN column_order[po.postorder[i]]
                               ELSE @[i]]]
        /\ locals' =
             [locals EXCEPT
                !.postorder = po.postorder,
                !.desc_count_org = po.desc_count,
                !.one_child =
                   [i \in 0 .. n - 1 |->
                      LET col == po.postorder[i]
                      IN /\ cl.first_child[col] # NONE
                         /\ cl.next_child[cl.first_child[col]] = NONE],
                !.desc_count =
                   [i \in 0 .. n - 1 |-> po.desc_count[po.postorder[i]]]]
  /\ pc' = "detect_supercol"
  /\ heap' = (((heap \ elimination_scratch_freed) \cup postorder_scratch)
               \ postorder_scratch_freed) \cup detect_scratch
  /\ UNCHANGED numeric_vars
  /\ UNCHANGED solve_vars
  /\ UNCHANGED <<A, column_order, ea, ds>>

\* one column of detect_supercol; the first one follows the initialisations
DetectColumn ==
  /\ pc = "detect_supercol"
  /\ ds.col < A.n
  /\ LET n == A.n
         fresh == ds.col = 0
         sc_size == IF fresh
                    THEN [i \in DOMAIN symbolic.supercolumn_size |->
                            IF i < n THEN 0 ELSE symbolic.supercolumn_size[i]]
                    ELSE symbolic.supercolumn_size
         sc_parent == IF fresh
                      THEN [i \in DOMAIN symbolic.etree.parent |->
                              IF i < n THEN NONE ELSE symbolic.etree.parent[i]]
                      ELSE symbolic.etree.parent
     IN \E r \in { ds_column(A, symbolic.columns, locals.one_child,
                              locals.l_size, locals.u_size, locals.postorder,
                              ds, sc_size, sc_parent) } :
        /\ ds' = r.ds
        /\ symbolic' = [symbolic EXCEPT !.supercolumn_size = r.sc_size,
                                        !.etree.parent = r.sc_parent]
  /\ UNCHANGED numeric_vars
  /\ UNCHANGED solve_vars
  /\ UNCHANGED <<A, column_order, pc, ea, locals, heap>>

\* the end of detect_supercol: the last supercolumn is closed, the parents
\* are mapped to supercolumns and the supercolumns are relaxed
RelaxSupercolumns ==
  /\ pc = "detect_supercol"
  /\ ds.col = A.n
  /\ \E fsc_num \in { ds.fsc_num + 1 } :
     \E fparent \in { correct_parents(symbolic.etree.parent,
                                     ds.map_col_supercol, fsc_num) } :
     \E r \in { relax([sc_num |-> 0, cscs |-> 0,
                       sc_size |-> symbolic.supercolumn_size,
                       map_fsc_rsc |-> ds.map_col_supercol,
                       lastcol |-> ds.lastcol],
                      fparent, locals.desc_count, fsc_num) } :
        /\ ds' = [ds EXCEPT !.fsc_num = fsc_num,
                            !.map_col_supercol = r.map_fsc_rsc,
                            !.lastcol = r.lastcol,
                            !.fsc_parent = fparent,
                            !.fsc_lastcol = ds.lastcol]
        /\ symbolic' =
             [symbolic EXCEPT
                !.number_supercolumns = r.sc_num,
                !.supercolumn_size = r.sc_size,
                !.etree.parent = relaxed_parents(fparent, r.lastcol,
                                                 r.map_fsc_rsc, r.sc_num)]
  /\ pc' = "supercolumn_bounds"
  /\ heap' = heap \ detect_scratch_freed
  /\ UNCHANGED numeric_vars
  /\ UNCHANGED solve_vars
  /\ UNCHANGED <<A, column_order, ea, locals>>

\* l_size and u_size of the supercolumns
SupercolumnBounds ==
  /\ pc = "supercolumn_bounds"
  /\ LET s == symbolic.number_supercolumns
         size == symbolic.supercolumn_size
         firstcol_ind(i) == SeqSum(size, 0, i - 1)
         bound(a, old) ==
           [i \in DOMAIN old |->
              IF i < s
              THEN supercolumn_bound(a, locals.postorder, firstcol_ind(i),
                                     size[i])
              ELSE old[i]]
     IN symbolic' = [symbolic EXCEPT !.l_size = bound(locals.l_size, @),
                                     !.u_size = bound(locals.u_size, @)]
  /\ pc' = "complete_symbolic"
  /\ UNCHANGED numeric_vars
  /\ UNCHANGED solve_vars
  /\ UNCHANGED <<A, column_order, ea, locals, ds, heap>>

\* complete_symbolic, after which the Symbolic is returned
CompleteSymbolic ==
  /\ pc = "complete_symbolic"
  /\ symbolic' = complete_symbolic(symbolic)
  /\ pc' = "symbolic_done"
  /\ heap' = heap \ symbolic_scratch_freed
  /\ UNCHANGED numeric_vars
  /\ UNCHANGED solve_vars
  /\ UNCHANGED <<A, column_order, ea, locals, ds>>

\* taucs_multilu_symbolic_free, called on the returned Symbolic
SymbolicFree ==
  /\ pc = "symbolic_done"
  /\ pc' = "symbolic_freed"
  /\ heap' = heap \ symbolic_free_arrays
  /\ UNCHANGED numeric_vars
  /\ UNCHANGED solve_vars
  /\ UNCHANGED <<A, column_order, ea, locals, ds, symbolic>>

SymbolicStep ==
  \/ EliminationColumn
  \/ Postorder
  \/ DetectColumn
  \/ RelaxSupercolumns
  \/ SupercolumnBounds
  \/ CompleteSymbolic
  \/ SymbolicFree

Supercolumns == 0 .. symbolic.number_supercolumns - 1

(***************************************************************************)
(* Numeric factorization: the context, factor blocks and contribution      *)
(* blocks.  Values are not modelled: a front is its list of rows and       *)
(* columns.  A fault is a step whose behaviour the C language leaves       *)
(* undefined or a failed assert; the run ends there.                       *)
(***************************************************************************)
NULL_contrib_block ==
  [null |-> TRUE, m |-> 0, n |-> 0, rows |-> <<>>, columns |-> <<>>,
   num_cols_in_parent |-> 0, L_member |-> FALSE, U_member |-> FALSE]

\* free_contrib_block that empties the block and leaves it in its factor
\* block
emptied_contrib_block(block) ==
  [block EXCEPT !.m = 0, !.n = 0, !.rows = <<>>, !.columns = <<>>]

\* free_contrib_block, after which the caller resets the contrib_block of
\* the factor block to NULL
free_contrib_block(block) == NULL_contrib_block

\* an entry of F->blocks after taucs_calloc
NULL_factor_block ==
  [null |-> TRUE, valid |-> FALSE, failed |-> "none", l_size |-> 0,
   pivot_rows |-> <<>>, pivot_cols |-> <<>>, non_pivot_cols |-> <<>>,
   contrib_block |-> NULL_contrib_block,
   col_pivots_number |-> 0, row_pivots_number |-> 0,
   non_pivot_rows_number |-> 0, non_pivot_cols_number |-> 0]

Fault(ctx, what) == IF ctx.fault = "none" THEN [ctx EXCEPT !.fault = what] ELSE ctx

\* context->At: for each row the columns holding it, in increasing order
taucs_ccs_transpose(M) ==
  [row \in 0 .. M.n - 1 |->
     SortedSeq({ c \in 0 .. M.n - 1 :
                   \E k \in 1 .. Len(M.cols[c]) : M.cols[c][k] = row })]

\* the map_cols area: one buffer of n cells when nproc <= 1, otherwise nproc
\* buffers of n + 1 cells chained through cell 0, cell n holding the offset
\* of its own buffer
map_cols_area(n, nproc) ==
  IF nproc <= 1 THEN IntArray(n, -1)
  ELSE [k \in 0 .. (n + 1) * nproc - 1 |->
          LET i == k \div (n + 1)
              j == k % (n + 1)
          IN IF j = n THEN i * (n + 1)
             ELSE IF j = 0 /\ i + 1 < nproc THEN (i + 1) * (n + 1)
             ELSE -1]

\* multilu_context_create followed by allocate_factor
multilu_context_create(M, sym, rule, nproc) ==
  [nproc |-> nproc,
   rule |-> rule,
   At |-> taucs_ccs_transpose(M),
   row_cleared |-> [i \in 0 .. M.n - 1 |-> FALSE],
   column_cleared |-> [i \in 0 .. M.n - 1 |-> FALSE],
   map_rows |-> IntArray(M.n, -1),
   map_cols |-> map_cols_area(M.n, nproc),
   start_free_map_cols |-> 0,
   blocks |-> [s \in 0 .. sym.number_supercolumns - 1 |-> NULL_factor_block],
   lu_failed |-> {},
   failures |-> 0,
   fault |-> "none",
   uninit |-> FALSE,
   steps |-> [s \in 0 .. sym.number_supercolumns - 1 |-> <<>>],
   rank_k |-> [s \in 0 .. sym.number_supercolumns - 1 |->
                 [own |-> 0, in_parent |-> 0, rest |-> 0]],
   align_log |-> {}, assembled |-> {}, reassembled |-> {},
   touched |-> [s \in 0 .. sym.number_supercolumns - 1 |-> {}],
   inlet |-> [s \in 0 .. sym.number_supercolumns - 1 |-> {}]]

\* the value of A[row, column] is written into the named array of the block
\* of supercolumn s
assemble_value(ctx, row, column, array, s) ==
  IF ctx.fault # "none" THEN ctx
  ELSE [ctx EXCEPT
          !.assembled = @ \cup {<<row, column, array, s>>},
          !.reassembled =
             IF \E e \in ctx.assembled : e[1] = row /\ e[2] = column
             THEN @ \cup {<<row, column>>} ELSE @]

\* the task of supercolumn s reads or writes map_rows[row] for each of rows
touch(ctx, s, rows) ==
  IF ctx.fault # "none" THEN ctx
  ELSE [ctx EXCEPT !.touched[s] = @ \cup rows]

\* supercolumn s begins the named step of its processing
begin_step(ctx, s, name) ==
  IF ctx.fault # "none" THEN ctx
  ELSE [ctx EXCEPT !.steps[s] = Append(@, name)]

\* position of x among the first n cells of S, or -1
is_member(x, S, n) ==
  LET hits == { i \in 1 .. n : S[i] = x }
  IN IF hits = {} THEN -1
     ELSE (CHOOSE i \in hits : \A j \in hits : i <= j) - 1

\* S[loc] = S[n - 1] followed by n--: removal by overwriting with the last
remove_at(S, loc) ==
  [i \in 1 .. Len(S) - 1 |-> IF i = loc + 1 THEN S[Len(S)] ELSE S[i]]

\* the sizes a supercolumn's block is allocated with
one_child_of(sym, s) ==
  /\ sym.etree.first_child[s] # NONE
  /\ sym.etree.next_child[sym.etree.first_child[s]] = NONE

\* the allocations of allocate_factor_block, any one of which may fail
AllocationSites == {"block", "pivot_cols", "pivot_rows", "LU1", "Ut2"}

\* a call that returns without a block: blocks[pivot_supercol] stays null
allocate_factor_block_skipped(ctx, sym, pivot_supercol, failed) ==
  IF ctx.fault # "none" THEN ctx
  ELSE begin_step(ctx, pivot_supercol, "allocate")

allocate_factor_block(ctx, sym, pivot_supercol, failed) ==
  LET s == sym.supercolumn_size[pivot_supercol]
      start == sym.start_supercolumn[pivot_supercol]
      block == [NULL_factor_block EXCEPT
                  !.null = FALSE,
                  !.failed = failed,
                  !.pivot_cols = [i \in 1 .. s |-> sym.columns[start + i - 1]],
                  !.valid = failed \notin {"pivot_rows", "Ut2"}]
      counted == [begin_step(ctx, pivot_supercol, "allocate")
                    EXCEPT !.failures = @ + (IF failed = "none" THEN 0 ELSE 1)]
  IN IF ctx.fault # "none" THEN ctx
     ELSE IF ~ctx.blocks[pivot_supercol].null
     THEN Fault(counted, "assert(blocks[pivot_supercol] == NULL)")
     ELSE IF failed = "block"
     THEN Fault(counted, "null factor_block written")
     ELSE IF failed = "pivot_cols"
     THEN Fault(counted, "memcpy to null pivot_cols")
     ELSE IF failed = "LU1"
     THEN Fault(counted, "memset of null LU1")
     ELSE [counted EXCEPT !.blocks[pivot_supercol] = block]

\* a row met while assembling the front of supercol: a new row takes the
\* next free position of pivot_rows
assemble_row(ctx, sym, supercol, row) ==
  IF ctx.fault # "none" THEN ctx
  ELSE IF ctx.map_rows[row] # -1 THEN touch(ctx, supercol, {row})
  ELSE IF ctx.blocks[supercol].failed = "pivot_rows"
  THEN Fault(touch(ctx, supercol, {row}), "null pivot_rows written")
  ELSE [touch(ctx, supercol, {row})
          EXCEPT !.blocks[supercol].pivot_rows = Append(@, row),
                   !.blocks[supercol].l_size = @ + 1,
                   !.map_rows[row] = ctx.blocks[supercol].l_size]

assert_size(ctx, sym, supercol) ==
  IF ctx.fault = "none"
     /\ ctx.blocks[supercol].l_size > sym.l_size[supercol]
  THEN Fault(ctx, "assert(size <= max_size)")
  ELSE ctx

\* one column of supercol looked up in the contribution block of contrib
\* focus_supercolumn_from_contrib that sets L_member along with U_member
focus_contrib_column_marks_both(ctx, sym, supercol, contrib, col_c) ==
  LET cb == ctx.blocks[contrib].contrib_block
      column == sym.columns[sym.start_supercolumn[supercol] + col_c]
      loc_arr == is_member(column, cb.columns, cb.n)
      shrunk(gathered) ==
        IF gathered.fault # "none" THEN gathered
        ELSE IF cb.n - 1 = 0
        THEN [gathered EXCEPT !.blocks[contrib].contrib_block = free_contrib_block(cb)]
        ELSE [gathered EXCEPT !.blocks[contrib].contrib_block =
                [cb EXCEPT !.n = cb.n - 1,
                           !.columns = remove_at(cb.columns, loc_arr),
                           !.U_member = TRUE,
                           !.L_member = TRUE]]
  IN IF ctx.fault # "none" \/ cb.null THEN ctx
     ELSE IF loc_arr = -1 THEN assert_size(ctx, sym, supercol)
     ELSE assert_size(
            shrunk(For(LAMBDA c, j :
                         IF c.fault = "none" /\ c.row_cleared[cb.rows[j + 1]]
                         THEN Fault(c, "assert(!row_cleared[row])")
                         ELSE assemble_row(c, sym, supercol, cb.rows[j + 1]),
                       ctx, 0, cb.m - 1)),
            sym, supercol)

focus_contrib_column(ctx, sym, supercol, contrib, col_c) ==
  LET cb == ctx.blocks[contrib].contrib_block
      column == sym.columns[sym.start_supercolumn[supercol] + col_c]
      loc_arr == is_member(column, cb.columns, cb.n)
      shrunk(gathered) ==
        IF gathered.fault # "none" THEN gathered
        ELSE IF cb.n - 1 = 0
        THEN [gathered EXCEPT !.blocks[contrib].contrib_block = free_contrib_block(cb)]
        ELSE [gathered EXCEPT !.blocks[contrib].contrib_block =
                [cb EXCEPT !.n = cb.n - 1,
                           !.columns = remove_at(cb.columns, loc_arr),
                           !.U_member = TRUE]]
  IN IF ctx.fault # "none" \/ cb.null THEN ctx
     ELSE IF loc_arr = -1 THEN assert_size(ctx, sym, supercol)
     ELSE assert_size(
            shrunk(For(LAMBDA c, j :
                         IF c.fault = "none" /\ c.row_cleared[cb.rows[j + 1]]
                         THEN Fault(c, "assert(!row_cleared[row])")
                         ELSE assemble_row(c, sym, supercol, cb.rows[j + 1]),
                       ctx, 0, cb.m - 1)),
            sym, supercol)

focus_supercolumn_from_contrib(ctx, sym, supercol, contrib) ==
  IF ctx.fault # "none" THEN ctx
  ELSE IF ctx.blocks[contrib].null
  THEN Fault(ctx, "null descendant factor block read")
  ELSE IF ctx.blocks[contrib].contrib_block.null THEN ctx
  ELSE IF ctx.blocks[supercol].null
  THEN Fault(ctx, "null factor block read")
  ELSE For(LAMBDA c, col_c : focus_contrib_column(c, sym, supercol, contrib, col_c),
           ctx, 0, sym.supercolumn_size[supercol] - 1)

focus_supercolumn_from_child(ctx, sym, supercol, child) ==
  LET first == sym.etree.first_desc_index[child]
      below == IF first # NONE
               THEN For(LAMBDA c, i : focus_supercolumn_from_contrib(c, sym, supercol, i),
                        begin_step(ctx, supercol, "focus_child"), first, child - 1)
               ELSE begin_step(ctx, supercol, "focus_child")
  IN focus_supercolumn_from_contrib(below, sym, supercol, child)

\* one column of supercol assembled from the matrix
\* focus_supercolumn_from_A without the test of row_cleared
focus_A_column_every_row(ctx, sym, M, supercol, col_c) ==
  LET column == ctx.blocks[supercol].pivot_cols[col_c + 1]
  IN IF ctx.fault # "none" THEN ctx
     ELSE IF ctx.column_cleared[column]
     THEN Fault(ctx, "assert(!column_cleared[column])")
     ELSE [For(LAMBDA c, i :
                 assemble_row(c, sym, supercol, rowind(M, column, i)),
               ctx, 0, nnz_column(M, column) - 1)
             EXCEPT !.column_cleared[column] = TRUE]

focus_A_column(ctx, sym, M, supercol, col_c) ==
  LET column == ctx.blocks[supercol].pivot_cols[col_c + 1]
      cleared(gathered) ==
        IF gathered.fault # "none" THEN gathered
        ELSE [gathered EXCEPT !.column_cleared[column] = TRUE]
  IN IF ctx.fault # "none" THEN ctx
     ELSE IF ctx.column_cleared[column]
     THEN Fault(ctx, "assert(!column_cleared[column])")
     ELSE assert_size(
            cleared(For(LAMBDA c, i :
                          IF c.fault = "none" /\ c.row_cleared[rowind(M, column, i)]
                          THEN c
                          ELSE assemble_row(
                                 assemble_value(c, rowind(M, column, i), column,
                                                "LU1", supercol),
                                 sym, supercol, rowind(M, column, i)),
                        ctx, 0, nnz_column(M, column) - 1)),
            sym, supercol)

focus_supercolumn_from_A(ctx, sym, M, supercol) ==
  IF ctx.fault # "none" THEN ctx
  ELSE IF ctx.blocks[supercol].null THEN Fault(ctx, "null factor block read")
  ELSE For(LAMBDA c, col_c : focus_A_column(c, sym, M, supercol, col_c),
           begin_step(ctx, supercol, "focus_A"), 0, sym.supercolumn_size[supercol] - 1)

\* a column met while assembling the pivot rows of pivot_supercol: a new
\* column takes the next free position of non_pivot_cols, which shares its
\* array of u_size cells with pivot_cols
assemble_col(ctx, sym, pivot_supercol, mc, column) ==
  LET block == ctx.blocks[pivot_supercol]
      size == Len(block.non_pivot_cols)
  IN IF ctx.fault # "none" \/ ctx.map_cols[mc + column] # -1 THEN ctx
     ELSE IF sym.supercolumn_size[pivot_supercol] + size
               >= sym.u_size[pivot_supercol]
     THEN Fault(ctx, "non_pivot_cols written past the end of pivot_cols")
     ELSE [ctx EXCEPT !.blocks[pivot_supercol].non_pivot_cols = Append(@, column),
                      !.map_cols[mc + column] = size]

assert_usize(ctx, sym, pivot_supercol) ==
  IF ctx.fault = "none"
     /\ Len(ctx.blocks[pivot_supercol].non_pivot_cols) > sym.u_size[pivot_supercol]
  THEN Fault(ctx, "assert(size <= max_size)")
  ELSE ctx

\* one pivot row assembled from the transposed matrix
\* focus_rows without the test of column_cleared
focus_rows_A_every_column(ctx, sym, pivot_supercol, mc, row) ==
  IF ctx.fault # "none" THEN ctx
  ELSE IF ctx.row_cleared[row]
  THEN Fault(ctx, "assert(!row_cleared[row])")
  ELSE [For(LAMBDA c, i :
              assemble_col(assemble_value(c, row, ctx.At[row][i + 1],
                                          "Ut2", pivot_supercol),
                           sym, pivot_supercol, mc, ctx.At[row][i + 1]),
            ctx, 0, Len(ctx.At[row]) - 1)
          EXCEPT !.row_cleared[row] = TRUE]

focus_rows_A(ctx, sym, pivot_supercol, mc, row) ==
  LET cleared(gathered) ==
        IF gathered.fault # "none" THEN gathered
        ELSE [gathered EXCEPT !.row_cleared[row] = TRUE]
  IN IF ctx.fault # "none" THEN ctx
     ELSE IF ctx.row_cleared[row]
     THEN Fault(ctx, "assert(!row_cleared[row])")
     ELSE assert_usize(
            cleared(For(LAMBDA c, i :
                          IF c.fault = "none" /\ c.column_cleared[ctx.At[row][i + 1]]
                          THEN c
                          ELSE assemble_col(
                                 assemble_value(c, row, ctx.At[row][i + 1],
                                                "Ut2", pivot_supercol),
                                 sym, pivot_supercol, mc, ctx.At[row][i + 1]),
                        ctx, 0, Len(ctx.At[row]) - 1)),
            sym, pivot_supercol)

\* one pivot row looked up in the contribution block of descendant c
focus_rows_contrib_row(ctx, sym, pivot_supercol, mc, c, row) ==
  LET cb == ctx.blocks[c].contrib_block
      loc_arr == is_member(row, cb.rows, cb.m)
      shrunk(gathered) ==
        IF gathered.fault # "none" THEN gathered
        ELSE IF cb.m - 1 = 0
        THEN [gathered EXCEPT !.blocks[c].contrib_block = free_contrib_block(cb)]
        ELSE [gathered EXCEPT !.blocks[c].contrib_block =
                [cb EXCEPT !.m = cb.m - 1,
                           !.rows = remove_at(cb.rows, loc_arr),
                           !.L_member = TRUE]]
  IN IF ctx.fault # "none" \/ cb.null THEN ctx
     ELSE IF loc_arr = -1 THEN assert_usize(ctx, sym, pivot_supercol)
     ELSE assert_usize(
            shrunk(For(LAMBDA x, i :
                         IF x.fault = "none" /\ x.column_cleared[cb.columns[i + 1]]
                         THEN Fault(x, "assert(!column_cleared[col])")
                         ELSE assemble_col(x, sym, pivot_supercol, mc,
                                           cb.columns[i + 1]),
                       ctx, 0, cb.n - 1)),
            sym, pivot_supercol)

focus_rows_contrib(ctx, sym, pivot_supercol, mc, number, c) ==
  IF ctx.fault # "none" THEN ctx
  ELSE IF ctx.blocks[c].null
  THEN Fault(ctx, "null descendant factor block read")
  ELSE IF ctx.blocks[c].contrib_block.null THEN ctx
  ELSE For(LAMBDA x, row_ind :
             focus_rows_contrib_row(x, sym, pivot_supercol, mc, c,
                                    x.blocks[pivot_supercol].pivot_rows[row_ind + 1]),
           ctx, 0, number - 1)

\* focus_rows on the first number pivot rows; ru_size is the length of
\* non_pivot_cols afterwards
focus_rows(ctx, sym, pivot_supercol, mc, number) ==
  LET fromA ==
        For(LAMBDA x, row_ind :
              focus_rows_A(x, sym, pivot_supercol, mc,
                           x.blocks[pivot_supercol].pivot_rows[row_ind + 1]),
            ctx, 0, number - 1)
      first == sym.etree.first_desc_index[pivot_supercol]
  IN IF first = NONE THEN fromA
     ELSE For(LAMBDA x, c : focus_rows_contrib(x, sym, pivot_supercol, mc, number, c),
              fromA, first, pivot_supercol - 1)

\* rearrange_non_pivot_cols: the columns of the parent come first
rearrange_non_pivot_cols(ctx, sym, pivot_supercol, mc) ==
  LET parent_supercol == sym.etree.parent[pivot_supercol]
      swap(r, col_c) ==
        LET column == sym.columns[sym.start_supercolumn[parent_supercol] + col_c]
            cols == r.ctx.blocks[pivot_supercol].non_pivot_cols
            switched_column == cols[r.num_inparent + 1]
            column_location == r.ctx.map_cols[mc + column]
        IN IF column_location = -1 THEN r
           ELSE [ctx |-> [r.ctx EXCEPT
                            !.blocks[pivot_supercol].non_pivot_cols =
                               [[cols EXCEPT ![r.num_inparent + 1] = column]
                                  EXCEPT ![column_location + 1] = switched_column],
                            !.map_cols =
                               [[@ EXCEPT ![mc + switched_column] = column_location]
                                  EXCEPT ![mc + column] = r.num_inparent]],
                 num_inparent |-> r.num_inparent + 1]
  IN IF parent_supercol = NONE THEN [ctx |-> ctx, num_inparent |-> 0]
     ELSE For(swap, [ctx |-> ctx, num_inparent |-> 0],
              0, sym.supercolumn_size[parent_supercol] - 1)

\* for (i = 0; i < n; i++) if (mapped(S[i])) { n--; S[i] = S[n]; i--; }
drop_mapped(S, map, offset) ==
  LET step(r) == IF map[offset + r.S[r.i + 1]] # -1
                 THEN [r EXCEPT !.S = remove_at(r.S, r.i)]
                 ELSE [r EXCEPT !.i = @ + 1]
  IN While(LAMBDA r : r.i < Len(r.S), step, [S |-> S, i |-> 0], Len(S)).S

\* the end of align_add_from: a contribution block left without rows or
\* without columns is freed, any other is unmarked
kill_or_unmark(cb, rows, columns) ==
  IF Len(rows) = 0 \/ Len(columns) = 0 THEN free_contrib_block(cb)
  ELSE [cb EXCEPT !.rows = rows, !.m = Len(rows),
                  !.columns = columns, !.n = Len(columns),
                  !.L_member = FALSE, !.U_member = FALSE]

\* align_add_from: the contribution block of desc is added into the new
\* contribution block of pivot_supercol through map_rows and map_cols
align_add_from(ctx, pivot_supercol, desc, mc) ==
  LET cb == ctx.blocks[desc].contrib_block
      addto == ctx.blocks[pivot_supercol].contrib_block
      row_to(i) == ctx.map_rows[cb.rows[i]]
      col_to(j) == ctx.map_cols[mc + cb.columns[j]]
      rows_hit == { i \in 1 .. cb.m : row_to(i) # -1 }
      cols_hit == { j \in 1 .. cb.n : col_to(j) # -1 }
      LUson == cb.L_member /\ cb.U_member
      Lson == cb.L_member /\ ~cb.U_member
      Uson == ~cb.L_member /\ cb.U_member
      unmapped ==
        \/ LUson /\ cb.m > 0 /\ cb.n > 0
                 /\ (Cardinality(rows_hit) < cb.m \/ Cardinality(cols_hit) < cb.n)
        \/ Lson /\ rows_hit # {} /\ Cardinality(cols_hit) < cb.n
        \/ Uson /\ cols_hit # {} /\ Cardinality(rows_hit) < cb.m
      misplaced ==
        Lson /\ \E i \in rows_hit :
                  \/ row_to(i) >= addto.m
                  \/ addto.rows[row_to(i) + 1] # cb.rows[i]
                  \/ \E j \in 1 .. cb.n :
                       \/ col_to(j) >= addto.n
                       \/ addto.columns[col_to(j) + 1] # cb.columns[j]
      aligned ==
        /\ \A i \in 1 .. cb.m :
              /\ row_to(i) # -1 /\ row_to(i) < addto.m
              /\ addto.rows[row_to(i) + 1] = cb.rows[i]
        /\ \A j \in 1 .. cb.n :
              /\ col_to(j) # -1 /\ col_to(j) < addto.n
              /\ addto.columns[col_to(j) + 1] = cb.columns[j]
      looked_up ==
        IF cb.L_member \/ cb.U_member
        THEN touch(ctx, pivot_supercol, { cb.rows[i] : i \in 1 .. cb.m })
        ELSE ctx
      logged ==
        IF LUson
        THEN [looked_up EXCEPT
                !.align_log = @ \cup {<<desc, pivot_supercol, aligned, cb.m * cb.n>>}]
        ELSE looked_up
  IN IF ctx.fault # "none" THEN ctx
     ELSE IF unmapped THEN Fault(logged, "align add through a map entry of -1")
     ELSE IF misplaced THEN Fault(logged, "assert(addto->rows[i_to_ind] == i_from)")
     ELSE [logged EXCEPT !.blocks[desc].contrib_block =
             kill_or_unmark(
               cb,
               IF Lson
               THEN drop_mapped(cb.rows, ctx.map_rows, 0)
               ELSE cb.rows,
               IF LUson THEN <<>>
               ELSE IF Uson
               THEN drop_mapped(cb.columns, ctx.map_cols, mc)
               ELSE cb.columns)]

\* the children of s in the order of its child list
children(sym, s) ==
  While(LAMBDA r : r.child # NONE,
        LAMBDA r : [list |-> Append(r.list, r.child),
                    child |-> sym.etree.next_child[r.child]],
        [list |-> <<>>, child |-> sym.etree.first_child[s]],
        sym.number_supercolumns).list

RECURSIVE align_add_subtree(_, _, _, _, _)
align_add_subtree(ctx, sym, pivot_supercol, subtree_root, mc) ==
  Let(children(sym, subtree_root), LAMBDA kids :
  Let(For(LAMBDA x, k : align_add_subtree(x, sym, pivot_supercol, kids[k], mc),
          ctx, 1, Len(kids)),
      LAMBDA below :
        IF below.fault # "none" THEN below
        ELSE IF below.blocks[subtree_root].null
        THEN Fault(below, "null descendant factor block read")
        ELSE IF below.blocks[subtree_root].contrib_block.null THEN below
        ELSE align_add_from(below, pivot_supercol, subtree_root, mc)))

\* get_map_cols: the offset of a free buffer in the map_cols area
get_map_cols(ctx) ==
  IF ctx.fault # "none" \/ ctx.nproc <= 1 THEN [ctx |-> ctx, map_cols |-> 0]
  ELSE IF ctx.start_free_map_cols = -1
  THEN [ctx |-> Fault(ctx, "assert(start_free_map_cols != -1)"), map_cols |-> 0]
  ELSE [ctx |-> [ctx EXCEPT !.start_free_map_cols = ctx.map_cols[ctx.start_free_map_cols],
                            !.map_cols[ctx.start_free_map_cols] = -1],
        map_cols |-> ctx.start_free_map_cols]

release_map_cols(ctx, M, mc) ==
  IF ctx.fault # "none" \/ ctx.nproc <= 1 THEN ctx
  ELSE IF ctx.map_cols[mc + M.n] = -1
  THEN Fault(ctx, "assert(map_cols[n] != -1)")
  ELSE [ctx EXCEPT !.map_cols[mc] = ctx.start_free_map_cols,
                   !.start_free_map_cols = ctx.map_cols[mc + M.n]]

\* the pivot rules of the dense kernel: the l_size rows of the front are
\* reordered so that the pivot rows come first
PivotRules == {"lowest", "highest"}

Reverse(S) == [i \in 1 .. Len(S) |-> S[Len(S) + 1 - i]]

C_LU(pivot_rows, rule) ==
  LET increasing == SortedSeq({ pivot_rows[i] : i \in 1 .. Len(pivot_rows) })
  IN IF rule = "lowest" THEN increasing ELSE Reverse(increasing)

\* what can go wrong while one supercolumn is processed: an allocation of
\* allocate_factor_block or of allocate_contrib_block returns null, or the
\* dense kernel finds no acceptable pivot
Failures == AllocationSites \cup {"C_LU", "contrib_block"}

allocation(failure) == IF failure \in AllocationSites THEN failure ELSE "none"

\* a C_CaddMABT that is applied twice
rank_k_update_twice(ctx, c, part) ==
  [ctx EXCEPT !.rank_k[c][part] = @ + 2]

\* C_CaddMABT on the named part of the contribution block of supercolumn c:
\* "own" is the whole block, updated by c itself, "in_parent" and "rest" are
\* the columns updated by the parent of an only child
rank_k_update(ctx, c, part) ==
  [ctx EXCEPT !.rank_k[c][part] = @ + 1]

\* factorize_l_portion of the parent of an only child: the update of the
\* columns of the child's block that are in the parent
update_in_parent(ctx, child) ==
  IF ~ctx.blocks[child].contrib_block.null
     /\ ctx.blocks[child].contrib_block.num_cols_in_parent > 0
  THEN rank_k_update(ctx, child, "in_parent")
  ELSE ctx

\* factorize_supercolumn of the parent of an only child, after the spawn of
\* factorize_l_portion: the update of the remaining columns of the child
complete_child_update(ctx, sym, pivot_supercol) ==
  LET child == sym.etree.first_child[pivot_supercol]
  IN IF ctx.fault # "none" THEN ctx
     ELSE IF ~(one_child_of(sym, pivot_supercol) /\ ctx.nproc > 1) THEN ctx
     ELSE IF ctx.blocks[child].null
     THEN Fault(ctx, "null child factor block read")
     ELSE IF ~ctx.blocks[child].contrib_block.null
             /\ ctx.blocks[child].non_pivot_cols_number
                  - ctx.blocks[child].contrib_block.num_cols_in_parent > 0
     THEN rank_k_update(ctx, child, "rest")
     ELSE ctx

factorize_l_portion(ctx, sym, M, pivot_supercol, mc, failure) ==
  LET one_child == one_child_of(sym, pivot_supercol)
      child == sym.etree.first_child[pivot_supercol]
      dense(focused) ==
        LET factor_block == focused.blocks[pivot_supercol]
        IN IF focused.fault # "none" THEN focused
           ELSE IF factor_block.null THEN Fault(focused, "null factor block read")
           ELSE IF ~factor_block.valid THEN focused
           ELSE IF factor_block.l_size <= 0
           THEN Fault(focused, "assert(l_size > 0)")
           ELSE [begin_step(focused, pivot_supercol, "LU") EXCEPT
                   !.blocks[pivot_supercol].pivot_rows = C_LU(@, ctx.rule),
                   !.lu_failed = IF failure = "C_LU"
                                 THEN @ \cup {pivot_supercol} ELSE @,
                   !.failures = IF failure = "C_LU" THEN @ + 1 ELSE @]
  IN IF ctx.fault # "none" THEN ctx
     ELSE IF one_child /\ ctx.nproc > 1
     THEN IF ctx.blocks[child].null
          THEN Fault(ctx, "null child factor block read")
          ELSE dense(focus_supercolumn_from_A(
                       focus_supercolumn_from_child(
                         allocate_factor_block(update_in_parent(ctx, child),
                                               sym, pivot_supercol,
                                               allocation(failure)),
                         sym, pivot_supercol, child),
                       sym, M, pivot_supercol))
     ELSE dense(ctx)

\* the part of factorize_supercolumn after the sync on factorize_l_portion
factorize_rest(ctx, sym, pivot_supercol, mc, failure) ==
  LET etree == sym.etree
      parent == etree.parent[pivot_supercol]
      only_child == IF ctx.nproc > 1
                    THEN /\ parent # NONE
                         /\ etree.first_child[parent] = pivot_supercol
                         /\ etree.next_child[pivot_supercol] = NONE
                    ELSE ctx.uninit
      parent_has_job == IF ctx.nproc > 1
                        THEN parent # NONE /\ sym.l_size[parent] > 0
                        ELSE ctx.uninit
      updated(x) ==
        IF x.fault # "none" \/ (only_child /\ parent_has_job) THEN x
        ELSE rank_k_update(begin_step(x, pivot_supercol, "rank_k"),
                           pivot_supercol, "own")
      l_size == ctx.blocks[pivot_supercol].l_size
      col_b_size == sym.supercolumn_size[pivot_supercol]
      row_b_size == min(l_size, col_b_size)
      first == etree.first_desc_index[pivot_supercol]
      created(mapped, num_inparent) ==
        [mapped EXCEPT !.blocks[pivot_supercol].contrib_block =
           [null |-> FALSE,
            m |-> l_size - row_b_size,
            n |-> Len(mapped.blocks[pivot_supercol].non_pivot_cols),
            rows |-> SubSeq(mapped.blocks[pivot_supercol].pivot_rows,
                            row_b_size + 1, l_size),
            columns |-> mapped.blocks[pivot_supercol].non_pivot_cols,
            num_cols_in_parent |-> num_inparent,
            L_member |-> FALSE, U_member |-> FALSE]]
      added(new) ==
        LET to == begin_step(new, pivot_supercol, "align_add")
        IN
        IF first = NONE THEN to
        ELSE IF ctx.nproc > 1
        THEN For(LAMBDA x, desc :
                   IF x.fault # "none" THEN x
                   ELSE IF x.blocks[desc].null
                   THEN Fault(x, "null descendant factor block read")
                   ELSE IF ~x.blocks[desc].contrib_block.null
                           /\ (x.blocks[desc].contrib_block.L_member
                               \/ x.blocks[desc].contrib_block.U_member)
                   THEN align_add_from(x, pivot_supercol, desc, mc)
                   ELSE x,
                 to, first, pivot_supercol - 1)
        ELSE Let(children(sym, pivot_supercol), LAMBDA kids :
               For(LAMBDA x, k :
                     align_add_subtree(x, sym, pivot_supercol, kids[k], mc),
                   to, 1, Len(kids)))
      mapped(rearranged) ==
        Let(For(LAMBDA x, i :
                  [x EXCEPT !.map_rows[x.blocks[pivot_supercol]
                                         .pivot_rows[row_b_size + 1 + i]] = i],
                rearranged.ctx, 0, l_size - row_b_size - 1),
            LAMBDA x :
              IF l_size - row_b_size <= 0 THEN x
              ELSE IF failure = "contrib_block"
              THEN Fault([x EXCEPT !.failures = @ + 1],
                         "null contribution block written")
              ELSE updated(added(created(x, rearranged.num_inparent))))
      contributed(focused) ==
        IF focused.fault # "none" THEN focused
        ELSE IF Len(focused.blocks[pivot_supercol].non_pivot_cols) = 0
        THEN focused
        ELSE mapped(IF only_child /\ parent_has_job /\ ctx.nproc > 1
                    THEN rearrange_non_pivot_cols(focused, sym, pivot_supercol, mc)
                    ELSE [ctx |-> focused, num_inparent |-> 0])
      sized(x) ==
        [x EXCEPT
           !.blocks[pivot_supercol].col_pivots_number = col_b_size,
           !.blocks[pivot_supercol].row_pivots_number = row_b_size,
           !.blocks[pivot_supercol].non_pivot_rows_number = l_size - row_b_size,
           !.blocks[pivot_supercol].non_pivot_cols_number =
              Len(x.blocks[pivot_supercol].non_pivot_cols)]
      unmarked(x) ==
        IF (l_size - row_b_size = 0
              \/ Len(x.blocks[pivot_supercol].non_pivot_cols) = 0)
           /\ first # NONE
        THEN For(LAMBDA y, desc :
                   IF y.fault # "none" THEN y
                   ELSE IF y.blocks[desc].null
                   THEN Fault(y, "null descendant factor block read")
                   ELSE IF y.blocks[desc].contrib_block.null THEN y
                   ELSE [y EXCEPT !.blocks[desc].contrib_block.L_member = FALSE,
                                  !.blocks[desc].contrib_block.U_member = FALSE],
                 x, first, pivot_supercol - 1)
        ELSE x
      rows_cleared(x) ==
        IF x.fault # "none" THEN x
        ELSE For(LAMBDA y, i :
                   [y EXCEPT !.map_rows[y.blocks[pivot_supercol].pivot_rows[i + 1]] = -1],
                 x, 0, l_size - 1)
      cols_cleared(x) ==
        IF x.fault # "none" THEN x
        ELSE For(LAMBDA y, i :
                   [y EXCEPT !.map_cols[mc + y.blocks[pivot_supercol]
                                               .non_pivot_cols[i + 1]] = -1],
                 x, 0, Len(x.blocks[pivot_supercol].non_pivot_cols) - 1)
      finished(x) ==
        IF x.fault # "none" THEN x
        ELSE begin_step(cols_cleared(rows_cleared(unmarked(sized(x)))),
                        pivot_supercol, "return")
  IN IF ctx.fault # "none" THEN ctx
     ELSE IF ctx.blocks[pivot_supercol].null
     THEN Fault(ctx, "null factor block read")
     ELSE IF ~ctx.blocks[pivot_supercol].valid
     THEN begin_step(ctx, pivot_supercol, "return")
     ELSE finished(contributed(focus_rows(begin_step(ctx, pivot_supercol,
                                               "focus_rows"),
                                          sym, pivot_supercol, mc,
                                          row_b_size)))

\* factorize_supercolumn with the dense LU after the rest
factorize_supercolumn_lu_last(ctx, sym, M, pivot_supercol, mc, failure) ==
  factorize_l_portion(
    factorize_rest(ctx, sym, pivot_supercol, mc, failure),
    sym, M, pivot_supercol, mc, failure)

factorize_supercolumn(ctx, sym, M, pivot_supercol, mc, failure) ==
  factorize_rest(
    complete_child_update(
      factorize_l_portion(ctx, sym, M, pivot_supercol, mc, failure),
      sym, pivot_supercol),
    sym, pivot_supercol, mc, failure)

\* allocate the block of supercolumn i and assemble its front: from the
\* subtree of every child, then from the matrix
assemble_supercolumn(ctx, sym, M, i, failed) ==
  Let(children(sym, i), LAMBDA kids :
    focus_supercolumn_from_A(
      For(LAMBDA x, k : focus_supercolumn_from_child(x, sym, i, kids[k]),
          allocate_factor_block(ctx, sym, i, failed), 1, Len(kids)),
      sym, M, i))

\* one iteration of the sequential loop of
\* taucs_dtl(ccs_factor_lu_numeric_maxdepth)
sequential_supercolumn(ctx, sym, M, i, failure) ==
  IF sym.l_size[i] = 0 THEN ctx
  ELSE Let(get_map_cols(assemble_supercolumn(ctx, sym, M, i,
                                             allocation(failure))),
           LAMBDA got :
             release_map_cols(
               factorize_supercolumn(got.ctx, sym, M, i, got.map_cols, failure),
               M, got.map_cols))

\* the scan that ends the numeric phase: the factor, or null when a block
\* is missing or invalid
all_blocks_valid(ctx) ==
  \A i \in DOMAIN ctx.blocks : ~ctx.blocks[i].null /\ ctx.blocks[i].valid

(***************************************************************************)
(* The numeric phase, taucs_dtl(ccs_factor_lu_numeric_maxdepth).  With     *)
(* nproc > 1 the scheduler is the one of the TAUCS_CILK build: a spawned   *)
(* call is a task, and the tasks that exist take their steps in any order. *)
(***************************************************************************)
Nprocs == {1, 2}
MaxDepths == {0, 1, 2}

\* the roots in the order of the root list
roots(sym) ==
  While(LAMBDA r : r.child # NONE,
        LAMBDA r : [list |-> Append(r.list, r.child),
                    child |-> sym.etree.next_child[r.child]],
        [list |-> <<>>, child |-> sym.etree.first_root],
        sym.number_supercolumns).list

is_root(sym, s) == \E k \in 1 .. Len(roots(sym)) : roots(sym)[k] = s

\* the failures still open to a step that performs the given allocations
FailureChoices(ctx, sites) ==
  {"none"} \cup (IF ctx.failures < MaxFailures THEN sites ELSE {})

after(ctx, at) == IF ctx.fault # "none" THEN "crashed" ELSE at

\* multilu_context_create, allocate_factor and, with nproc > 1, the spawn
\* of recursive_factorize_supercolumn for every root
NumericStart ==
  /\ pc = "symbolic_done"
  /\ \E nproc \in Nprocs, rule \in PivotRules, garbage \in BOOLEAN :
       mcontext' = [multilu_context_create(A, symbolic, rule, nproc)
                      EXCEPT !.uninit = garbage /\ nproc <= 1]
  /\ \E depth \in MaxDepths :
       max_depth' = IF mcontext'.nproc > 1 THEN depth ELSE 0
  /\ loop_i' = 0
  /\ task' = [s \in Supercolumns |->
                [at |-> IF mcontext'.nproc > 1 /\ is_root(symbolic, s)
                        THEN "spawned" ELSE "unspawned",
                 depth |-> 0, map_cols |-> 0, desc |-> NONE]]
  /\ pc' = IF mcontext'.nproc > 1 THEN "parallel" ELSE "sequential"
  /\ UNCHANGED <<F, A, column_order, ea, locals, ds, symbolic, heap, solve>>

\* nproc <= 1: one iteration of the loop over the supercolumns
SequentialSupercolumn ==
  /\ pc = "sequential"
  /\ loop_i < symbolic.number_supercolumns
  /\ \E failure \in FailureChoices(mcontext, Failures) :
       mcontext' = sequential_supercolumn(mcontext, symbolic, A, loop_i, failure)
  /\ loop_i' = loop_i + 1
  /\ pc' = after(mcontext', pc)
  /\ UNCHANGED <<max_depth, task, F, A, column_order, ea, locals, ds, symbolic, heap, solve>>

\* the condition with depth < max_depth
recursive_below_max_depth(s) ==
  /\ task[s].depth < max_depth
  /\ ~(symbolic.supercolumn_covered_columns[s] < MULTILU_MIN_COVER_SPRS_SPAWN)

recursive(s) ==
  /\ max_depth = 0 \/ task[s].depth + 1 < max_depth
  /\ ~(symbolic.supercolumn_covered_columns[s] < MULTILU_MIN_COVER_SPRS_SPAWN)

have_job_here(s) == symbolic.l_size[s] # 0

\* recursive_factorize_supercolumn(s) spawns itself for every child
SpawnChildren(s) ==
  /\ pc = "parallel"
  /\ task[s].at = "spawned"
  /\ recursive(s)
  /\ task' = [c \in Supercolumns |->
                IF c = s THEN [task[c] EXCEPT !.at = "sync"]
                ELSE IF symbolic.etree.parent[c] = s
                THEN [task[c] EXCEPT !.at = "spawned",
                                     !.depth = task[s].depth + 1]
                ELSE task[c]]
  /\ UNCHANGED <<mcontext, max_depth, loop_i, pc, F,
                 A, column_order, ea, locals, ds, symbolic, heap, solve>>

\* focus_from_spawned focusing only from the child that returns first, the
\* one that finds the block of s not yet allocated
\* focus_supercolumn_from_child run by the inlet of s on the return of child
inlet_focus(ctx, sym, s, child) ==
  Let(focus_supercolumn_from_child([ctx EXCEPT !.touched[s] = {}], sym, s, child),
      LAMBDA r :
        [r EXCEPT !.touched[s] = @ \cup ctx.touched[s],
                  !.inlet[s] = @ \cup { <<child, row>> : row \in r.touched[s] }])

FocusFromFirstSpawned(s, child) ==
  /\ pc = "parallel"
  /\ task[s].at = "sync"
  /\ symbolic.etree.parent[child] = s
  /\ task[child].at = "returned"
  /\ LET focuses == /\ have_job_here(s)
                    /\ ~one_child_of(symbolic, s)
                    /\ mcontext.blocks[s].null
     IN \E failure \in FailureChoices(mcontext,
                         IF focuses THEN AllocationSites ELSE {}) :
          mcontext' =
            IF ~focuses THEN mcontext
            ELSE inlet_focus(
                   allocate_factor_block(mcontext, symbolic, s, failure),
                   symbolic, s, child)
  /\ task' = [task EXCEPT ![child].at = "joined"]
  /\ pc' = after(mcontext', pc)
  /\ UNCHANGED <<max_depth, loop_i, F, A, column_order, ea, locals, ds, symbolic, heap, solve>>

\* the inlet focus_from_spawned, run in the frame of s when child returns
FocusFromSpawned(s, child) ==
  /\ pc = "parallel"
  /\ task[s].at = "sync"
  /\ symbolic.etree.parent[child] = s
  /\ task[child].at = "returned"
  /\ LET focuses == have_job_here(s) /\ ~one_child_of(symbolic, s)
         allocates == focuses /\ mcontext.blocks[s].null
     IN \E failure \in FailureChoices(mcontext,
                         IF allocates THEN AllocationSites ELSE {}) :
          mcontext' =
            IF ~focuses THEN mcontext
            ELSE inlet_focus(
                   IF allocates
                   THEN allocate_factor_block(mcontext, symbolic, s, failure)
                   ELSE mcontext,
                   symbolic, s, child)
  /\ task' = [task EXCEPT ![child].at = "joined"]
  /\ pc' = after(mcontext', pc)
  /\ UNCHANGED <<max_depth, loop_i, F, A, column_order, ea, locals, ds, symbolic, heap, solve>>

\* after the sync of s: its front is completed from the matrix and a
\* map_cols buffer is taken
AssembleAfterSync(s) ==
  /\ pc = "parallel"
  /\ task[s].at = "sync"
  /\ \A c \in Supercolumns :
       symbolic.etree.parent[c] = s => task[c].at = "joined"
  /\ LET assembles == have_job_here(s) /\ ~one_child_of(symbolic, s)
         allocates == assembles /\ mcontext.blocks[s].null
     IN \E failure \in FailureChoices(mcontext,
                         IF allocates THEN AllocationSites ELSE {}) :
          \E got \in { get_map_cols(
                         IF assembles
                         THEN focus_supercolumn_from_A(
                                IF allocates
                                THEN allocate_factor_block(mcontext, symbolic,
                                                           s, failure)
                                ELSE mcontext,
                                symbolic, A, s)
                         ELSE mcontext) } :
             IF have_job_here(s)
             THEN /\ mcontext' = got.ctx
                  /\ task' = [task EXCEPT ![s].at = "l_portion",
                                          ![s].map_cols = got.map_cols]
             ELSE /\ mcontext' = mcontext
                  /\ task' = [task EXCEPT ![s].at = "returned"]
  /\ pc' = after(mcontext', pc)
  /\ UNCHANGED <<max_depth, loop_i, F, A, column_order, ea, locals, ds, symbolic, heap, solve>>

\* factorize_l_portion, spawned by factorize_supercolumn
LPortion(s) ==
  /\ pc = "parallel"
  /\ task[s].at \in {"l_portion", "l_portion_only"}
  /\ \E failure \in FailureChoices(mcontext,
                      {"C_LU"} \cup (IF one_child_of(symbolic, s)
                                     THEN AllocationSites ELSE {})) :
       mcontext' = factorize_l_portion(mcontext, symbolic, A, s,
                                       task[s].map_cols, failure)
  /\ task' = [task EXCEPT ![s].at =
                 IF one_child_of(symbolic, s) /\ @ = "l_portion"
                 THEN "continuation" ELSE "rest"]
  /\ pc' = after(mcontext', pc)
  /\ UNCHANGED <<max_depth, loop_i, F, A, column_order, ea, locals, ds, symbolic, heap, solve>>

\* factorize_supercolumn between the spawn of factorize_l_portion and the
\* sync: with one child, the update of the rest of the child's block
CompleteChild(s) ==
  /\ pc = "parallel"
  /\ task[s].at \in {"l_portion", "continuation"}
  /\ one_child_of(symbolic, s)
  /\ mcontext' = complete_child_update(mcontext, symbolic, s)
  /\ task' = [task EXCEPT ![s].at =
                 IF @ = "l_portion" THEN "l_portion_only" ELSE "rest"]
  /\ pc' = after(mcontext', pc)
  /\ UNCHANGED <<max_depth, loop_i, F, A, column_order, ea, locals, ds, symbolic, heap, solve>>

\* factorize_supercolumn after its sync, then release_map_cols and return
Rest(s) ==
  /\ pc = "parallel"
  /\ task[s].at = "rest"
  /\ \E failure \in FailureChoices(mcontext, {"contrib_block"}) :
       mcontext' = release_map_cols(
                     factorize_rest(mcontext, symbolic, s, task[s].map_cols, failure),
                     A, task[s].map_cols)
  /\ task' = [task EXCEPT ![s].at = "returned"]
  /\ pc' = after(mcontext', pc)
  /\ UNCHANGED <<max_depth, loop_i, F, A, column_order, ea, locals, ds, symbolic, heap, solve>>

\* recursive_factorize_supercolumn(s) at the depth limit: the subtree of s
\* is processed by this task alone, with one map_cols buffer
CutToSequential(s) ==
  /\ pc = "parallel"
  /\ task[s].at = "spawned"
  /\ ~recursive(s)
  /\ \E got \in { get_map_cols(mcontext) } :
     LET first == symbolic.etree.first_desc_index[s]
     IN /\ mcontext' = got.ctx
        /\ task' = [task EXCEPT ![s].at = "subtree",
                                ![s].map_cols = got.map_cols,
                                ![s].desc = IF first # NONE THEN first ELSE s]
  /\ pc' = after(mcontext', pc)
  /\ UNCHANGED <<max_depth, loop_i, F, A, column_order, ea, locals, ds, symbolic, heap, solve>>

\* one supercolumn of the subtree of s: a descendant, or at the end s itself
SubtreeSupercolumn(s) ==
  /\ pc = "parallel"
  /\ task[s].at = "subtree"
  /\ LET desc == task[s].desc
         mc == task[s].map_cols
     IN /\ \E failure \in FailureChoices(mcontext, Failures) :
             LET assembled ==
                   IF one_child_of(symbolic, desc) THEN mcontext
                   ELSE assemble_supercolumn(mcontext, symbolic, A, desc,
                                             allocation(failure))
                 factorized ==
                   IF symbolic.l_size[desc] = 0 THEN mcontext
                   ELSE factorize_supercolumn(assembled, symbolic, A, desc, mc, failure)
             IN mcontext' = IF desc = s
                            THEN release_map_cols(factorized, A, mc)
                            ELSE factorized
        /\ task' = IF desc = s THEN [task EXCEPT ![s].at = "returned"]
                   ELSE [task EXCEPT ![s].desc = desc + 1]
  /\ pc' = after(mcontext', pc)
  /\ UNCHANGED <<max_depth, loop_i, F, A, column_order, ea, locals, ds, symbolic, heap, solve>>

\* multilu_context_free and the scan of the blocks: the factor is returned,
\* or freed and null returned
NumericReturn ==
  /\ \/ pc = "sequential" /\ loop_i = symbolic.number_supercolumns
     \/ pc = "parallel" /\ \A s \in Supercolumns :
                             is_root(symbolic, s) => task[s].at = "returned"
  /\ F' = [null |-> ~all_blocks_valid(mcontext), blocks |-> mcontext.blocks]
  /\ pc' = "returned"
  /\ UNCHANGED <<mcontext, max_depth, loop_i, task,
                 A, column_order, ea, locals, ds, symbolic, heap, solve>>

NumericStep ==
  \/ NumericStart
  \/ SequentialSupercolumn
  \/ \E s \in Supercolumns : SpawnChildren(s)
  \/ \E s, child \in Supercolumns : FocusFromSpawned(s, child)
  \/ \E s \in Supercolumns : AssembleAfterSync(s)
  \/ \E s \in Supercolumns : LPortion(s)
  \/ \E s \in Supercolumns : CompleteChild(s)
  \/ \E s \in Supercolumns : Rest(s)
  \/ \E s \in Supercolumns : CutToSequential(s)
  \/ \E s \in Supercolumns : SubtreeSupercolumn(s)
  \/ NumericReturn

Next == SymbolicStep \/ NumericStep

Spec == Init /\ [][Next]_vars

(***************************************************************************)
(* The solve phase.  The numerical values are not modelled: a cell of B,   *)
(* X, Y or T holds the set of the cells <<row, column>> of the caller's B  *)
(* its value is computed from, and <<-1, g>> if it is computed from memory *)
(* that was never written (g names what that memory happened to hold).     *)
(***************************************************************************)
MaxRhs == 2

\* what taucs_malloc'ed memory may hold before it is written
Garbage == {0, 1}

\* for (c < n) for (j < idx size) dst[doff + j + c * ld_d] = src[idx[j] + c * ld_s]
gather(dst, doff, ld_d, src, idx, ld_s, n) ==
  For(LAMBDA d, c :
        For(LAMBDA e, j : [e EXCEPT ![doff + j - 1 + c * ld_d] =
                                       src[idx[j] + c * ld_s]],
            d, 1, Len(idx)),
      dst, 0, n - 1)

\* for (c < n) for (j < idx size) dst[idx[j] + c * ld_d] = src[soff + j + c * ld_s]
scatter(dst, idx, ld_d, src, soff, ld_s, n) ==
  For(LAMBDA d, c :
        For(LAMBDA e, j : [e EXCEPT ![idx[j] + c * ld_d] =
                                       src[soff + j - 1 + c * ld_s]],
            d, 1, Len(idx)),
      dst, 0, n - 1)

\* X = inv(L1) X for the m by n block of X at off: row j of the result is
\* computed from the rows 0 .. j of the same column
C_UnitLowerLeftTriSolve(m, n, X, off, ld) ==
  For(LAMBDA Z, c :
        For(LAMBDA W, j :
              [W EXCEPT ![off + j + c * ld] = @ \cup W[off + j - 1 + c * ld]],
            Z, 1, m - 1),
      X, 0, n - 1)

\* X = inv(U1) X for the m by n block of X at off: row j of the result is
\* computed from the rows j .. m - 1 of the same column
C_UpperLeftTriSolve(m, n, X, off, ld) ==
  For(LAMBDA Z, c :
        For(LAMBDA W, k :
              [W EXCEPT ![off + (m - 1 - k) + c * ld] =
                           @ \cup W[off + (m - k) + c * ld]],
            Z, 1, m - 1),
      X, 0, n - 1)

\* the cells off .. off + m - 1 of column c of a block with leading dimension ld
column_cells(X, off, m, c, ld) ==
  UNION { X[off + p + c * ld] : p \in 0 .. m - 1 }

\* C -= M * B (C_CaddMAB) or C -= M^T * B (C_CaddMATB) for the m by n block
\* of C at coff and the k by n block of B at boff: every row of a column of
\* C is computed from itself and the k rows of the same column of B
C_CaddMAB(m, n, k, B, boff, ld_B, C, coff, ld_C) ==
  For(LAMBDA Z, c :
        Let(column_cells(B, boff, k, c, ld_B),
            LAMBDA v :
              For(LAMBDA W, j : [W EXCEPT ![coff + j + c * ld_C] = @ \cup v],
                  Z, 0, m - 1)),
      C, 0, n - 1)

\* the rows of a block of the factor: pivot_rows, then non_pivot_rows
block_pivot_rows(block) == SubSeq(block.pivot_rows, 1, block.row_pivots_number)

block_non_pivot_rows(block) ==
  SubSeq(block.pivot_rows, block.row_pivots_number + 1,
         block.row_pivots_number + block.non_pivot_rows_number)

\* one block of solve_blocked_L
solve_block_L(Fc, st, i, n, ld_B, ld_X) ==
  Let(Fc.blocks[i], LAMBDA block :
  Let(C_UnitLowerLeftTriSolve(block.row_pivots_number, n,
        gather(st.X, st.off, ld_X, st.B, block_pivot_rows(block), ld_B, n),
        st.off, ld_X), LAMBDA X2 :
    IF block.non_pivot_rows_number > 0
    THEN Let(C_CaddMAB(block.non_pivot_rows_number, n,
                       block.row_pivots_number, X2, st.off, ld_X,
                       gather(st.T, 0, Fc.n, st.B,
                              block_non_pivot_rows(block), ld_B, n),
                       0, Fc.n), LAMBDA T2 :
           [X |-> X2,
            B |-> scatter(st.B, block_non_pivot_rows(block), ld_B, T2, 0,
                          Fc.n, n),
            T |-> T2, off |-> st.off + block.row_pivots_number])
    ELSE [X |-> X2, B |-> st.B, T |-> st.T,
          off |-> st.off + block.row_pivots_number]))

\* solve_blocked_L: L X = P B; returns X, B and T
solve_blocked_L(Fc, X, B, T, n, ld_B, ld_X) ==
  For(LAMBDA st, i : solve_block_L(Fc, st, i, n, ld_B, ld_X),
      [X |-> X, B |-> B, T |-> T, off |-> 0], 0, Fc.num_blocks - 1)

\* one block of solve_blocked_U; st.off is where B points
solve_block_U(Fc, st, i, n, ld_B, ld_X) ==
  Let(Fc.blocks[i], LAMBDA block :
  Let(st.off - block.col_pivots_number, LAMBDA off :
  Let(IF block.non_pivot_cols_number > 0
      THEN gather(st.T, 0, Fc.n, st.X, block.non_pivot_cols, ld_X, n)
      ELSE st.T, LAMBDA T1 :
  Let(C_UpperLeftTriSolve(block.col_pivots_number, n,
        IF block.non_pivot_cols_number > 0
        THEN C_CaddMAB(block.col_pivots_number, n,
                       block.non_pivot_cols_number, T1, 0, Fc.n,
                       st.B, off, ld_B)
        ELSE st.B,
        off, ld_B), LAMBDA B2 :
    [X |-> scatter(st.X, block.pivot_cols, ld_X, B2, off, ld_B, n),
     B |-> B2, T |-> T1, off |-> off]))))

\* solve_blocked_U: U inv(Q) X = B; returns X, B and T
solve_blocked_U(Fc, X, B, T, n, ld_B, ld_X) ==
  For(LAMBDA st, k : solve_block_U(Fc, st, Fc.num_blocks - 1 - k, n, ld_B, ld_X),
      [X |-> X, B |-> B, T |-> T, off |-> Fc.n], 0, Fc.num_blocks - 1)

\* memory of the given size that was never written
uninitialized(size, g) == [i \in 0 .. size - 1 |-> {<<-1, g>>}]

\* taucs_dtl(multilu_solve_many): X and B as they are when it returns
taucs_multilu_solve_many(Fc, n, X, ld_X, B, ld_B, g) ==
  Let(solve_blocked_L(Fc, uninitialized(n * Fc.n, g),
                      [i \in 0 .. n * ld_B - 1 |-> B[i]],
                      uninitialized(n * Fc.n, g), n, ld_B, Fc.n),
      LAMBDA l :
        [X |-> solve_blocked_U(Fc, X, l.X, l.T, n, Fc.n, ld_X).X, B |-> B])

\* taucs_dtl(multilu_solve)
taucs_multilu_solve(Fc, x, b, g) ==
  taucs_multilu_solve_many(Fc, 1, x, Fc.m, b, Fc.m, g)

\* the factor as the solve phase reads it
Factor ==
  [n |-> A.n, m |-> A.n, num_blocks |-> symbolic.number_supercolumns,
   blocks |-> F.blocks]

\* the caller's B: k columns with leading dimension ld_B
RightHandSides(k, ld_B) ==
  [i \in 0 .. k * ld_B - 1 |-> {<<i % ld_B, i \div ld_B>>}]

\* a call of taucs_multilu_solve_many on the returned factor, with X and B
\* of different leading dimensions
SolveMany ==
  /\ pc = "returned"
  /\ ~F.null
  /\ ~solve.called
  /\ \E k \in 1 .. MaxRhs, pad \in {0, 1}, g \in Garbage :
       \E r \in { taucs_multilu_solve_many(Factor, k,
                       uninitialized(k * (A.n + pad), g), A.n + pad,
                       RightHandSides(k, A.n + 1 - pad), A.n + 1 - pad, g) } :
          solve' = [called |-> TRUE, nrhs |-> k, ld_X |-> A.n + pad,
                    ld_B |-> A.n + 1 - pad, X |-> r.X, B |-> r.B]
  /\ UNCHANGED numeric_vars
  /\ UNCHANGED <<A, column_order, pc, ea, locals, ds, symbolic, heap>>

\* the symbolic phase, the sequential numeric phase and the solve phase
SolveNext ==
  \/ SymbolicStep
  \/ NumericStart
  \/ SequentialSupercolumn
  \/ NumericReturn
  \/ SolveMany

SolveSpec == Init /\ [][SolveNext]_vars

(***************************************************************************)
(* Properties of the symbolic analysis                                     *)
(***************************************************************************)
\* detect_supercol has returned: the parents are those of the relaxed
\* supercolumns
Relaxed == pc \notin {"elimination_analysis", "detect_supercol"}

\* taucs_ccs_factor_lu_symbolic has returned the Symbolic
SymbolicReturned ==
  pc \notin {"elimination_analysis", "detect_supercol",
             "supercolumn_bounds", "complete_symbolic"}


\* the proper ancestors of supercolumn c, following parent[]
RECURSIVE Ancestors(_, _)
Ancestors(c, fuel) ==
  LET p == symbolic.etree.parent[c]
  IN IF p = NONE \/ fuel = 0 THEN {}
     ELSE {p} \cup Ancestors(p, fuel - 1)

Descendants(s) ==
  { c \in Supercolumns : s \in Ancestors(c, symbolic.number_supercolumns) }

HasChildren(s) == \E c \in Supercolumns : symbolic.etree.parent[c] = s

\* C1: once the relaxation pass has rewritten the parents, and in the
\* Symbolic that is returned, every supercolumn that has a parent has a
\* parent of larger index.
C1_ParentAfterChild ==
  Relaxed =>
    \A s \in Supercolumns :
      symbolic.etree.parent[s] # NONE => symbolic.etree.parent[s] > s

C1_Witness ==
  /\ SymbolicReturned
  /\ \E s, t \in Supercolumns :
       /\ symbolic.etree.parent[s] = t
       /\ symbolic.etree.parent[t] # NONE

\* C2: in the returned Symbolic a supercolumn with children has
\* last_desc_index = s - 1 and its descendants are exactly the indices
\* first_desc_index .. last_desc_index; a leaf has first_desc_index = NONE.
C2_DescendantRange ==
  SymbolicReturned =>
    \A s \in Supercolumns :
      IF HasChildren(s)
      THEN /\ symbolic.etree.last_desc_index[s] = s - 1
           /\ symbolic.etree.first_desc_index[s] # NONE
           /\ Descendants(s) = symbolic.etree.first_desc_index[s] ..
                                  symbolic.etree.last_desc_index[s]
      ELSE symbolic.etree.first_desc_index[s] = NONE

C2_Witness ==
  /\ SymbolicReturned
  /\ \E s \in Supercolumns :
       /\ HasChildren(s)
       /\ symbolic.etree.parent[s] # NONE
       /\ Cardinality(Descendants(s)) >= 2

\* C3: in the returned Symbolic the supercolumns split the positions
\* 0 .. n-1 into consecutive non-empty ranges, so the sizes sum to n and the
\* assertion of complete_symbolic holds.
C3_Partition ==
  SymbolicReturned =>
    LET S == symbolic.number_supercolumns
        start == symbolic.start_supercolumn
        end == symbolic.end_supercolumn
        size == symbolic.supercolumn_size
    IN /\ S >= 1
       /\ start[0] = 0
       /\ \A s \in 1 .. S - 1 : end[s - 1] + 1 = start[s]
       /\ end[S - 1] = symbolic.n - 1
       /\ \A s \in Supercolumns :
            size[s] = end[s] - start[s] + 1 /\ size[s] >= 1
       /\ SeqSum(size, 0, S - 1) = symbolic.n
       /\ ~symbolic.assert_failed

C3_Witness ==
  /\ SymbolicReturned
  /\ symbolic.number_supercolumns >= 3
  /\ \E s \in Supercolumns : symbolic.supercolumn_size[s] >= 2

\* the first end-to-end scenario: diag(2,3,5,7) in the given order
DiagScenario == A = DiagMatrix /\ column_order = IdentityOrder(4)

\* C8: for diag(2,3,5,7) and the identity order the symbolic analysis
\* returns four supercolumns, each of one column.
C8_DiagFourSingletons ==
  (SymbolicReturned /\ DiagScenario) =>
    /\ symbolic.number_supercolumns = 4
    /\ \A s \in 0 .. 3 : symbolic.supercolumn_size[s] = 1

\* the fourth end-to-end scenario: the 6x6 arrow matrix in the given order
ArrowScenario == A = ArrowMatrix /\ column_order = IdentityOrder(6)

\* C9 as stated: for the 6x6 arrow matrix and the identity order the
\* symbolic analysis returns exactly two supercolumns.
C9_ArrowTwoSupercolumns ==
  (SymbolicReturned /\ ArrowScenario) => symbolic.number_supercolumns = 2

\* C9, amended: the two fundamental supercolumns that detect_supercol finds
\* for the arrow matrix are united by the relaxation pass (the parent has
\* fewer than MULTILU_RELAX_RULE_SIZE descendants), so the analysis returns
\* one supercolumn holding the six columns.
C9_ArrowOneSupercolumn ==
  /\ (pc = "supercolumn_bounds" /\ ArrowScenario) => ds.fsc_num = 2
  /\ (SymbolicReturned /\ ArrowScenario) =>
       /\ symbolic.number_supercolumns = 1
       /\ symbolic.supercolumn_size[0] = 6
       /\ symbolic.etree.parent[0] = NONE

C9_Witness == SymbolicReturned /\ ArrowScenario

(***************************************************************************)
(* Properties of the numeric factorization                                 *)
(***************************************************************************)
\* taucs_ccs_factor_lu_numeric_maxdepth has returned
NumericReturned == pc = "returned"

\* the run has met no allocation and no pivoting failure
Undisturbed == mcontext.failures = 0

\* the faults of a front that outgrows the arrays of its factor block
SizeFaults ==
  {"assert(size <= max_size)",
   "non_pivot_cols written past the end of pivot_cols"}

\* C4: while the fronts are assembled, the rows gathered into the front of
\* a supercolumn never exceed its symbolic l_size, and its columns together
\* with the non-pivot columns gathered by focus_rows never exceed its
\* symbolic u_size, so that no assert(size <= max_size) fails.
C4_FrontWithinSymbolicSizes ==
  Undisturbed =>
    /\ mcontext.fault \notin SizeFaults
    /\ \A s \in DOMAIN mcontext.blocks :
         ~mcontext.blocks[s].null =>
           /\ mcontext.blocks[s].l_size <= symbolic.l_size[s]
           /\ symbolic.supercolumn_size[s]
                + Len(mcontext.blocks[s].non_pivot_cols) <= symbolic.u_size[s]

\* C5: when the dense LU kernel found no acceptable pivot for a
\* supercolumn, the block of that supercolumn is invalid at the end of the
\* numeric factorization, which returns null.
C5_PivotFailureInvalidates ==
  NumericReturned =>
    \A s \in mcontext.lu_failed : ~mcontext.blocks[s].valid /\ F.null

\* the faults of a null pointer handed back by an allocation of
\* allocate_factor_block
NullPointerFaults ==
  {"null factor_block written", "memcpy to null pivot_cols",
   "memset of null LU1", "null pivot_rows written"}

\* C6: when an allocation of allocate_factor_block returns null, no null
\* pointer is read or written, the block is marked invalid, nothing more is
\* done for its supercolumn (its front stays empty), and the numeric
\* factorization returns null.
C6_AllocationFailureContained ==
  /\ mcontext.fault \notin NullPointerFaults
  /\ \A s \in DOMAIN mcontext.blocks :
       (~mcontext.blocks[s].null /\ mcontext.blocks[s].failed # "none") =>
         /\ ~mcontext.blocks[s].valid
         /\ mcontext.blocks[s].l_size = 0
         /\ NumericReturned => F.null

\* C7: when the numeric factorization returns a factor, no factor block
\* still holds a contribution block.
C7_NoContribBlockLeft ==
  (NumericReturned /\ ~F.null) =>
    \A s \in DOMAIN F.blocks : F.blocks[s].contrib_block.null

\* a factor is returned in which a supercolumn had non-pivot rows and
\* non-pivot columns, hence a contribution block
C7_Witness ==
  /\ NumericReturned
  /\ ~F.null
  /\ \E s \in DOMAIN F.blocks :
       /\ F.blocks[s].non_pivot_rows_number > 0
       /\ F.blocks[s].non_pivot_cols_number > 0
       /\ F.blocks[s].contrib_block.null

\* the zero pattern of a factor block: pivot rows, non-pivot rows and
\* non-pivot columns
Pattern(b) ==
  [pivot_rows |-> { b.pivot_rows[k] : k \in 1 .. b.row_pivots_number },
   non_pivot_rows |-> { b.pivot_rows[k] :
                          k \in b.row_pivots_number + 1 .. Len(b.pivot_rows) },
   non_pivot_cols |-> { b.non_pivot_cols[k] :
                          k \in 1 .. Len(b.non_pivot_cols) }]

\* the context at the end of the sequential schedule (nproc = 1) for the
\* same matrix, Symbolic and pivot rule
SequentialSchedule(rule) ==
  For(LAMBDA x, i : sequential_supercolumn(x, symbolic, A, i, "none"),
      multilu_context_create(A, symbolic, rule, 1),
      0, symbolic.number_supercolumns - 1)

\* C10: every run of the parallel schedule (nproc > 1) ends as the
\* sequential schedule does for the same matrix, Symbolic and pivot rule:
\* each supercolumn gets the same pivot rows, non-pivot rows and non-pivot
\* columns, and the parallel run faults only if the sequential one does.
C10_ParallelPatternIsSequential ==
  (mcontext.nproc > 1 /\ Undisturbed /\ pc \in {"returned", "crashed"}) =>
    \A sequential \in { SequentialSchedule(mcontext.rule) } :
      IF pc = "crashed" THEN sequential.fault # "none"
      ELSE /\ sequential.fault = "none"
           /\ \A s \in DOMAIN mcontext.blocks :
                /\ mcontext.blocks[s].null = sequential.blocks[s].null
                /\ Pattern(mcontext.blocks[s]) = Pattern(sequential.blocks[s])

\* a parallel run without depth limit has returned a factor for a tree in
\* which a supercolumn has two children, whose tasks ran in either order
C10_Witness ==
  /\ NumericReturned
  /\ mcontext.nproc > 1
  /\ max_depth = 0
  /\ Undisturbed
  /\ ~F.null
  /\ \E s, c, d \in Supercolumns :
       /\ c # d
       /\ symbolic.etree.parent[c] = s
       /\ symbolic.etree.parent[d] = s

(***************************************************************************)
(* The maps of the numeric phase                                           *)
(***************************************************************************)
\* no supercolumn is inside factorize_supercolumn: the sequential loop is
\* between two iterations, or the numeric phase has returned
Quiescent == pc = "sequential" \/ pc = "returned"

\* the offsets of the map_cols buffers in the map_cols area
MapColsBuffers ==
  IF mcontext.nproc <= 1 THEN {0}
  ELSE { k * (A.n + 1) : k \in 0 .. mcontext.nproc - 1 }

\* buffer b maps no column; with nproc > 1 cell 0 of a free buffer holds
\* the offset of the next free buffer
BufferCleared(b) ==
  /\ \A j \in 1 .. A.n - 1 : mcontext.map_cols[b + j] = -1
  /\ \/ mcontext.map_cols[b] = -1
     \/ mcontext.nproc > 1 /\ mcontext.map_cols[b] \in MapColsBuffers

\* C11: once factorize_supercolumn has returned for every supercolumn it
\* was called for, in any scheduling mode, every entry of map_rows and every
\* column entry of every map_cols buffer is -1 again.
C11_MapsCleared ==
  Quiescent =>
    /\ \A r \in DOMAIN mcontext.map_rows : mcontext.map_rows[r] = -1
    /\ \A b \in MapColsBuffers : BufferCleared(b)

\* C11 for the runs in which no allocation fails
C11_MapsClearedUndisturbed == Undisturbed => C11_MapsCleared

(***************************************************************************)
(* The memory of the symbolic phase                                        *)
(***************************************************************************)
\* C12: when taucs_ccs_factor_lu_symbolic has returned, every scratch array
\* allocated by it, by elimination_analysis, by df_postorder and by
\* detect_supercol has been freed, and after taucs_multilu_symbolic_free no
\* array allocated by allocate_symbolic is left.
C12_NoArrayOutlivesOwner ==
  /\ SymbolicReturned => heap \subseteq allocate_symbolic_arrays
  /\ pc = "symbolic_freed" => heap \cap allocate_symbolic_arrays = {}

(***************************************************************************)
(* Properties of the solve phase                                           *)
(***************************************************************************)
\* column j of an array with leading dimension ld, rows 0 .. m - 1
Column(X, j, ld, m) == [r \in 0 .. m - 1 |-> X[r + j * ld]]

\* column j of the X of the last taucs_multilu_solve_many call is what
\* taucs_multilu_solve computes from column j of B
SameAsSolve(j) ==
  LET m == A.n
      b == Column(RightHandSides(solve.nrhs, solve.ld_B), j, solve.ld_B, m)
      one == taucs_multilu_solve(Factor, uninitialized(m, 0), b, 0)
  IN Column(solve.X, j, solve.ld_X, m) = Column(one.X, 0, m, m)

\* C14: taucs_multilu_solve_many writes into each column j of X exactly the
\* vector taucs_multilu_solve produces for column j of B, for every factor,
\* and leaves B unchanged.
C14_SolveManyIsSolvePerColumn ==
  solve.called =>
    /\ \A j \in 0 .. solve.nrhs - 1 : SameAsSolve(j)
    /\ solve.B = RightHandSides(solve.nrhs, solve.ld_B)

\* every front of the factor found as many pivot rows as it has columns
FullRank ==
  \A s \in Supercolumns :
     F.blocks[s].row_pivots_number = F.blocks[s].col_pivots_number

\* C14 for the factors in which every column has a pivot row
C14_SolveManyIsSolveFullRank ==
  solve.called /\ FullRank => C14_SolveManyIsSolvePerColumn

(***************************************************************************)
(* Properties of the scheduling of the numeric phase                       *)
(***************************************************************************)
\* the numeric phase is under way
NumericRunning == pc \in {"sequential", "parallel", "returned"}

\* factorize_supercolumn has returned for d, or is never called for it
Completed(d) ==
  \/ symbolic.l_size[d] = 0
  \/ /\ mcontext.steps[d] # <<>>
     /\ mcontext.steps[d][Len(mcontext.steps[d])] = "return"

\* d and its descendants
Subtree(d) == {d} \cup Descendants(d)

\* the only child of s, whose contribution block both factorize_l_portion
\* of s and the rest of factorize_supercolumn of s work on
OnlyChildBlock(s) ==
  LET child == symbolic.etree.first_child[s]
  IN IF one_child_of(symbolic, s) /\ ~mcontext.blocks[child].null
     THEN mcontext.blocks[child].contrib_block
     ELSE NULL_contrib_block

\* C15: under every interleaving, when s focuses from a child or runs
\* focus_rows, every descendant whose contribution block it may read has
\* completed its factorize_supercolumn, and no two tasks work on the same
\* contribution block at the same time.
C15_BlocksReadWhenComplete ==
  pc = "parallel" =>
    \A s \in Supercolumns :
       /\ \A child \in Supercolumns :
            symbolic.etree.parent[child] = s /\ task[child].at = "joined"
              => \A d \in Subtree(child) : Completed(d)
       /\ (\E k \in DOMAIN mcontext.steps[s] :
              mcontext.steps[s][k] = "focus_rows")
            => \A d \in Descendants(s) : Completed(d)
       /\ ~(task[s].at = "l_portion" /\ ~OnlyChildBlock(s).null)

\* C15 without its last part
C15_DescendantsComplete ==
  pc = "parallel" =>
    \A s \in Supercolumns :
       /\ \A child \in Supercolumns :
            symbolic.etree.parent[child] = s /\ task[child].at = "joined"
              => \A d \in Subtree(child) : Completed(d)
       /\ (\E k \in DOMAIN mcontext.steps[s] :
              mcontext.steps[s][k] = "focus_rows")
            => \A d \in Descendants(s) : Completed(d)

\* C20: with one child, the update of the rest of the child's block is
\* started only after factorize_l_portion of the parent has finished.
C20_RestAfterLPortion ==
  pc = "parallel" =>
    \A s \in Supercolumns :
       task[s].at \in {"l_portion", "l_portion_only"}
       /\ one_child_of(symbolic, s)
         => mcontext.rank_k[symbolic.etree.first_child[s]].rest = 0

\* the place of a step in the processing of a supercolumn
StepRank(name) ==
  CASE name = "allocate" -> 0
    [] name = "focus_child" -> 1
    [] name = "focus_A" -> 2
    [] name = "LU" -> 3
    [] name = "focus_rows" -> 4
    [] name = "align_add" -> 5
    [] name = "rank_k" -> 6
    [] name = "return" -> 7

Steps(s) == mcontext.steps[s]

HasStep(s, name) == \E k \in DOMAIN Steps(s) : Steps(s)[k] = name

\* C16: in every scheduling mode the steps of a supercolumn are begun in
\* this order, each after the one before it has finished: focus from the
\* children's subtrees, focus from A, dense LU, focus_rows, align-add from
\* the descendants, rank-k update of its own contribution block.
C16_StepsInOrder ==
  NumericRunning =>
    \A s \in Supercolumns :
       \A i, j \in DOMAIN Steps(s) :
          i < j =>
            /\ StepRank(Steps(s)[i]) <= StepRank(Steps(s)[j])
            /\ StepRank(Steps(s)[i]) > 1
                 => StepRank(Steps(s)[i]) < StepRank(Steps(s)[j])

\* a supercolumn with children went through all six steps and returned
C16_Witness ==
  /\ pc = "returned"
  /\ \E s \in Supercolumns :
       /\ HasStep(s, "focus_child")
       /\ \A name \in {"focus_A", "LU", "focus_rows", "align_add", "rank_k"} :
            HasStep(s, name)

\* recursive_factorize_supercolumn(s) has spawned a task per child
Spawning(s) ==
  task[s].at \in {"sync", "l_portion", "l_portion_only", "continuation", "rest"}

\* what the task of s has done so far is as the scheduler prescribes when
\* spawns tells whether s spawns its children
ScheduledAs(s, spawns) ==
  /\ Spawning(s) =>
       /\ spawns
       /\ \A c \in Supercolumns :
            symbolic.etree.parent[c] = s => task[c].at # "unspawned"
  /\ task[s].at = "subtree" =>
       /\ ~spawns
       /\ \A d \in Descendants(s) :
            /\ task[d].at = "unspawned"
            /\ d < task[s].desc => Completed(d)
            /\ d >= task[s].desc => Steps(d) = <<>>

\* C17: in parallel mode recursive_factorize_supercolumn(s) at depth d
\* spawns one task per child exactly when (max_depth = 0 or
\* d + 1 < max_depth) and supercolumn_covered_columns[s] >=
\* MULTILU_MIN_COVER_SPRS_SPAWN; otherwise it processes the subtree of s in
\* index order inside the calling task.
C17_SpawnsBelowDepthLimit ==
  pc = "parallel" =>
    \A s \in Supercolumns :
       ScheduledAs(s, /\ max_depth = 0 \/ task[s].depth + 1 < max_depth
                      /\ symbolic.supercolumn_covered_columns[s]
                           >= MULTILU_MIN_COVER_SPRS_SPAWN)

\* C17 as stated: it spawns exactly when d < max_depth and
\* supercolumn_covered_columns[s] >= MULTILU_MIN_COVER_SPRS_SPAWN.
C17_SpawnsWhenDepthBelowMax ==
  pc = "parallel" =>
    \A s \in Supercolumns :
       ScheduledAs(s, /\ task[s].depth < max_depth
                      /\ symbolic.supercolumn_covered_columns[s]
                           >= MULTILU_MIN_COVER_SPRS_SPAWN)

\* a root has spawned its children and one of them, at the depth limit,
\* processes its subtree alone
C17_Witness ==
  /\ pc = "parallel"
  /\ \E s, c \in Supercolumns :
       /\ task[s].at = "sync"
       /\ symbolic.etree.parent[c] = s
       /\ task[c].at = "subtree"
       /\ HasChildren(c)

\* the contribution block of c was allocated
BlockCreated(c) == HasStep(c, "align_add")

\* C18: in sequential mode every supercolumn that allocates a contribution
\* block applies the rank-k update to the whole block inside its own
\* factorize_supercolumn call, before any later supercolumn is processed.
C18_SequentialUpdatesOwnBlock ==
  pc \in {"sequential", "returned"} /\ mcontext.nproc <= 1 =>
    \A c \in Supercolumns :
       BlockCreated(c) => mcontext.rank_k[c] = [own |-> 1, in_parent |-> 0, rest |-> 0]

\* C18 for the runs in which the uninitialised only_child and
\* parent_has_job happen to hold 0
C18_SequentialUpdatesWhenZero ==
  ~mcontext.uninit => C18_SequentialUpdatesOwnBlock

\* the columns of the contribution block of c that are columns of its parent
ColsInParent(c) ==
  LET p == symbolic.etree.parent[c]
      cols == mcontext.blocks[c].non_pivot_cols
  IN IF p = NONE THEN {}
     ELSE { k \in DOMAIN cols :
              \E i \in symbolic.start_supercolumn[p] .. symbolic.end_supercolumn[p] :
                 symbolic.columns[i] = cols[k] }

\* c is an only child whose parent has a front
PostponesTo(c) ==
  LET p == symbolic.etree.parent[c]
  IN /\ p # NONE
     /\ symbolic.etree.first_child[p] = c
     /\ symbolic.etree.next_child[c] = NONE
     /\ symbolic.l_size[p] > 0

\* C19: in parallel mode every column of a contribution block receives the
\* rank-k update exactly once: from its supercolumn c, or, when c is an only
\* child whose parent has l_size > 0, from the parent (the columns in the
\* parent in factorize_l_portion, the others in factorize_supercolumn); c
\* postpones if and only if its parent does the update.
C19_UpdatedExactlyOnce ==
  /\ NumericRunning /\ mcontext.nproc > 1 =>
       \A c \in Supercolumns :
          /\ mcontext.rank_k[c].own <= 1
          /\ mcontext.rank_k[c].in_parent <= 1
          /\ mcontext.rank_k[c].rest <= 1
          /\ mcontext.rank_k[c].own = 1
               => mcontext.rank_k[c].in_parent = 0 /\ mcontext.rank_k[c].rest = 0
          /\ Completed(c) /\ BlockCreated(c)
               => (mcontext.rank_k[c].own = 0 <=> PostponesTo(c))
  /\ pc = "returned" /\ mcontext.nproc > 1 =>
       \A c \in Supercolumns :
          BlockCreated(c) /\ PostponesTo(c) =>
            LET inparent == Cardinality(ColsInParent(c))
                others == Len(mcontext.blocks[c].non_pivot_cols) - inparent
            IN /\ mcontext.rank_k[c].in_parent = IF inparent > 0 THEN 1 ELSE 0
               /\ mcontext.rank_k[c].rest = IF others > 0 THEN 1 ELSE 0

\* an only child postponed its update and the parent did both parts of it
C19_Witness ==
  /\ pc = "returned" /\ mcontext.nproc > 1
  /\ \E c \in Supercolumns :
       /\ BlockCreated(c) /\ PostponesTo(c)
       /\ mcontext.rank_k[c] = [own |-> 0, in_parent |-> 1, rest |-> 1]

\* the column loop of elimination_analysis is about to call garbage_collect
CollectionDue ==
  /\ pc = "elimination_analysis"
  /\ ea.col < A.n
  /\ ea.next_row + A.n - ea.col > WorkspaceSize(A)

LiveRows == { i \in 0 .. A.n - 1 : ~ea.row_cleared[i] }

\* the pattern of size ints that starts at start in the pool
PatternAt(workspace, start, size) ==
  [k \in 1 .. size |-> workspace[start + k - 1]]

\* what garbage_collect has to leave behind, g being its result
Compacted(g) ==
  /\ \A i \in LiveRows :
       /\ PatternAt(g.workspace, g.el_start[i], ea.rows_size[i])
            = PatternAt(ea.row_workspace, ea.rows_start[i], ea.rows_size[i])
       /\ g.el_start[i] >= 0
       /\ g.el_start[i] + ea.rows_size[i] <= g.loc
  /\ \A i, j \in LiveRows :
       ea.rows_start[i] < ea.rows_start[j]
         => g.el_start[i] + ea.rows_size[i] <= g.el_start[j]
  /\ \A i \in (0 .. A.n - 1) \ LiveRows : g.el_start[i] = ea.rows_start[i]
  /\ g.loc = SeqSum([i \in 0 .. A.n - 1 |->
                       IF i \in LiveRows THEN ea.rows_size[i] ELSE 0],
                    0, A.n - 1)

\* C27: garbage_collect leaves the size and the contents of every live row
\* pattern unchanged, places the live patterns contiguously from offset 0 in
\* increasing order of their previous start, rewrites their starts, leaves
\* the entries of cleared patterns untouched and returns the sum of the
\* live sizes.
C27_GarbageCollectCompacts ==
  CollectionDue =>
    \A backward \in BOOLEAN :
       Compacted(garbage_collect(ea.row_workspace, ea.rows_start,
                                 ea.rows_size, ea.row_cleared, A.n, backward))

\* C27 when memcpy copies overlapping regions front to back
C27_GarbageCollectCompactsForward ==
  CollectionDue =>
    Compacted(garbage_collect(ea.row_workspace, ea.rows_start,
                              ea.rows_size, ea.row_cleared, A.n, FALSE))

\* the free pointer with which the next column step builds its row
RowStart(backward) ==
  IF CollectionDue
  THEN garbage_collect(ea.row_workspace, ea.rows_start, ea.rows_size,
                       ea.row_cleared, A.n, backward).loc
  ELSE ea.next_row

\* C28: during elimination_analysis every write into the row-pattern
\* workspace is at an index below nnz(A) + MULTILU_EAN_BUFFER * n; at the
\* start of each column step, also right after a collection, there is room
\* for the n - col columns the merged row can hold.
C28_WorkspaceWritesInBounds ==
  /\ ~ea.overflow
  /\ pc = "elimination_analysis" =>
       /\ ea.next_row <= Nnz(A) + MULTILU_EAN_BUFFER * A.n
       /\ DOMAIN ea.row_workspace = 0 .. WorkspaceSize(A) - 1
       /\ ea.col < A.n =>
            \A backward \in BOOLEAN :
               RowStart(backward) + A.n - ea.col
                 <= Nnz(A) + MULTILU_EAN_BUFFER * A.n

\* a row was built right after a collection: the free pointer is below
\* nnz(A), where it started
C28_Witness ==
  /\ pc = "elimination_analysis"
  /\ ea.col > 0
  /\ ea.next_row < Nnz(A)
  /\ locals.u_size[ea.col - 1] > 1

\* the fundamental supercolumns, as detect_supercol numbered them before it
\* relaxed them; ds.fsc_parent and ds.fsc_lastcol are sc_parent and lastcol
\* as they were when the relaxation loop was entered
FundamentalSupercolumns == 0 .. ds.fsc_num - 1

\* the parent of fundamental supercolumn i has a last column with at least
\* MULTILU_RELAX_RULE_SIZE descendants (desc_count, which counts the column)
ParentIsLarge(i) ==
  /\ ds.fsc_parent[i] # NONE
  /\ locals.desc_count[ds.fsc_lastcol[ds.fsc_parent[i]]]
       >= MULTILU_RELAX_RULE_SIZE

Meet(i, j) ==
  \E a \in DOMAIN A.cols[column_order[i]] :
     \E b \in DOMAIN A.cols[column_order[j]] :
        A.cols[column_order[i]][a] = A.cols[column_order[j]][b]

\* the elimination tree of the pattern of A^T*A with the columns permuted by
\* column_order, from the definition: the parent of j is the first row below
\* the diagonal in column j of the Cholesky factor, whose pattern is that of
\* column j of A^T*A united with the patterns of the children of j
ColumnEtree ==
  For(LAMBDA t, j :
        LET below == { i \in j + 1 .. A.n - 1 : Meet(i, j) }
                     \cup UNION { t.struct[k] \ {j} :
                                    k \in { c \in 0 .. j - 1 : t.parent[c] = j } }
        IN [parent |-> [t.parent EXCEPT ![j] =
                          IF below = {} THEN A.n
                          ELSE CHOOSE i \in below : \A o \in below : i <= o],
            struct |-> [t.struct EXCEPT ![j] = below]],
      [parent |-> IntArray(A.n, A.n), struct |-> [j \in 0 .. A.n - 1 |-> {}]],
      0, A.n - 1).parent

\* elimination_analysis has gone through all the columns
EliminationAnalysed == pc = "elimination_analysis" /\ ea.col = A.n

\* C26: for every square matrix without empty columns and every
\* column_order, elimination_analysis returns for each pivot step i the
\* parent of i in the column elimination tree of A under that order, with
\* parent[i] > i for every step that is not a root and parent[i] = n exactly
\* for the roots.
C26_ParentIsColumnEtree ==
  EliminationAnalysed =>
    \E etree \in {ColumnEtree} :
       \A i \in 0 .. A.n - 1 :
          /\ symbolic.etree.parent[i] = etree[i]
          /\ symbolic.etree.parent[i] > i
          /\ symbolic.etree.parent[i] <= A.n

\* a column etree with a root that has two children, in a forest
C26_Witness ==
  /\ EliminationAnalysed
  /\ \E i, j, k \in 0 .. A.n - 1 :
       /\ i < j
       /\ symbolic.etree.parent[i] = symbolic.etree.parent[j]
       /\ symbolic.etree.parent[i] < A.n
       /\ symbolic.etree.parent[k] = A.n
       /\ k < A.n - 1

\* how often step name was begun for supercolumn s
StepCount(s, name) ==
  Cardinality({ k \in DOMAIN Steps(s) : Steps(s)[k] = name })

\* C22: in every scheduling mode each supercolumn s with l_size[s] # 0 has
\* allocate_factor_block(s) called exactly once, before the first focus into
\* s, and factorize_supercolumn(s) run exactly once; the assertion
\* blocks[s] == NULL never fails and no such supercolumn is left without a
\* block.
C22_OneBlockPerSupercolumn ==
  /\ mcontext.fault # "assert(blocks[pivot_supercol] == NULL)"
  /\ mcontext.fault # "null factor block read"
  /\ NumericRunning =>
       \A s \in Supercolumns :
          /\ StepCount(s, "allocate") <= 1
          /\ StepCount(s, "LU") <= 1
          /\ StepCount(s, "return") <= 1
          /\ Steps(s) # <<>> =>
               /\ Steps(s)[1] = "allocate"
               /\ symbolic.l_size[s] # 0
               /\ ~mcontext.blocks[s].null
          /\ mcontext.blocks[s].null => Steps(s) = <<>>
          /\ pc = "returned" /\ symbolic.l_size[s] # 0 =>
               /\ ~mcontext.blocks[s].null
               /\ StepCount(s, "allocate") = 1
               /\ StepCount(s, "return") = 1

\* a factorization in which a parent with one child took its block in
\* factorize_l_portion and a parent with several took it in the inlet
C22_Witness ==
  /\ pc = "returned" /\ mcontext.nproc > 1
  /\ \E s, t \in Supercolumns :
       /\ one_child_of(symbolic, s) /\ StepCount(s, "allocate") = 1
       /\ HasChildren(t) /\ ~one_child_of(symbolic, t)
       /\ StepCount(t, "allocate") = 1
       /\ StepCount(t, "focus_child") > 1

\* the rows gathered into the front of supercolumn s
Front(s) ==
  { mcontext.blocks[s].pivot_rows[k] : k \in DOMAIN mcontext.blocks[s].pivot_rows }

\* the rows focus_rows of s works on: the first min(l_size, supercolumn
\* size) cells of pivot_rows after the dense LU
SelectedRows(s) ==
  IF ~HasStep(s, "focus_rows") THEN {}
  ELSE { mcontext.blocks[s].pivot_rows[k] :
           k \in 1 .. min(mcontext.blocks[s].l_size,
                          symbolic.supercolumn_size[s]) }

\* the rows of the contribution block of s, none when it has no block
ContribRows(s) ==
  LET cb == mcontext.blocks[s].contrib_block
  IN IF mcontext.blocks[s].null \/ cb.null THEN {}
     ELSE { cb.rows[k] : k \in 1 .. cb.m }

\* a cleared row stays out of every front it is not yet in
ClearedRowsStayOut ==
  \A s \in Supercolumns : \A r \in 0 .. A.n - 1 :
     mcontext.row_cleared[r] /\ r \notin Front(s)
       => r \notin Front(s)'

\* C24: over a numeric factorization each row is selected as a pivot row at
\* most once: the pivot rows of different supercolumns are disjoint, a row
\* with row_cleared set is a pivot row of the supercolumn whose focus_rows
\* set it, is in no live contribution block and is never added to another
\* front afterwards, and row_pivots_number <= col_pivots_number in every
\* block.
C24_RowsPivotOnce ==
  /\ [](NumericRunning /\ mcontext.fault = "none" =>
         /\ \A s \in Supercolumns :
               /\ mcontext.blocks[s].row_pivots_number
                     <= mcontext.blocks[s].col_pivots_number
               /\ \A t \in Supercolumns \ {s} :
                     SelectedRows(s) \cap SelectedRows(t) = {}
         /\ \A r \in 0 .. A.n - 1 :
               mcontext.row_cleared[r] =>
                 /\ \E s \in Supercolumns : r \in SelectedRows(s)
                 /\ \A t \in Supercolumns : r \notin ContribRows(t))
  /\ [][NumericRunning /\ NumericRunning' /\ mcontext.fault = "none"
          => ClearedRowsStayOut]_vars

\* a finished factorization in which a row of a descendant's front became a
\* pivot row of an ancestor, and in which a block has fewer pivot rows than
\* pivot columns
C24_Witness ==
  /\ pc = "returned" /\ mcontext.fault = "none"
  /\ \E s \in Supercolumns : \E t \in Descendants(s) :
       SelectedRows(s) \cap Front(t) # {}
  /\ \E u \in Supercolumns :
       /\ HasStep(u, "return")
       /\ mcontext.blocks[u].row_pivots_number
            < mcontext.blocks[u].col_pivots_number

\* the calls of align_add_from on a block with L_member and U_member set:
\* <<descendant, pivot supercolumn, every row and column mapped to its place,
\* number of entries scattered>>
LUsonCalls == mcontext.align_log

\* C23: whenever align_add_from runs for a descendant contribution block
\* with both L_member and U_member set, every remaining row r of the block
\* has map_rows[r] # -1 and every remaining column c has map_cols[c] # -1,
\* and these are the positions of r and c in the rows and columns of addto.
C23_LUsonIsMapped ==
  \A call \in LUsonCalls : call[3]

\* a factorization that added a block with both marks and ended without a
\* fault
C23_Witness ==
  /\ pc = "returned" /\ mcontext.fault = "none"
  /\ \E call \in LUsonCalls : call[3] /\ call[4] > 0

\* the stored entries of A as <<row, column>>
StoredEntries ==
  UNION { { <<A.cols[c][k], c>> : k \in 1 .. Len(A.cols[c]) } : c \in 0 .. A.n - 1 }

\* the supercolumn whose pivot columns hold column c
SupercolumnOf(c) ==
  CHOOSE s \in Supercolumns :
    \E k \in 0 .. symbolic.supercolumn_size[s] - 1 :
       symbolic.columns[symbolic.start_supercolumn[s] + k] = c

\* the arrays the value of entry e was written into
Assemblies(e) == { a \in mcontext.assembled : a[1] = e[1] /\ a[2] = e[2] }

\* the numeric factorization has returned without any failure
Complete == pc = "returned" /\ mcontext.fault = "none" /\ Undisturbed

\* row_cleared and column_cleared only change from false to true
ClearedFlagsOnlyRise ==
  \A i \in 0 .. A.n - 1 :
     /\ mcontext.row_cleared[i] => mcontext.row_cleared[i]'
     /\ mcontext.column_cleared[i] => mcontext.column_cleared[i]'

\* C29: over a complete numeric factorization every stored entry A[r,c] is
\* assembled into exactly one dense front: into LU1 of the supercolumn of
\* column c when row r has not been pivoted before that supercolumn is
\* assembled, otherwise into Ut2 of the block, met earlier, in which r is a
\* pivot row; no entry is assembled twice, none is skipped, and row_cleared
\* and column_cleared only change from false to true.
C29_EveryEntryAssembledOnce ==
  /\ [](mcontext.reassembled = {})
  /\ [](Complete =>
          \A e \in StoredEntries :
             /\ Cardinality(Assemblies(e)) = 1
             /\ \A a \in Assemblies(e) :
                   \/ a[3] = "LU1" /\ a[4] = SupercolumnOf(e[2])
                   \/ /\ a[3] = "Ut2"
                      /\ e[1] \in SelectedRows(a[4])
                      /\ a[4] \in Descendants(SupercolumnOf(e[2])))
  /\ [][NumericRunning /\ NumericRunning' => ClearedFlagsOnlyRise]_vars

\* a complete factorization that assembled entries into LU1 and into Ut2
C29_Witness ==
  /\ Complete
  /\ \E a, b \in mcontext.assembled : a[3] = "LU1" /\ b[3] = "Ut2"
  /\ symbolic.number_supercolumns > 1

\* the entries of map_rows the task of supercolumn s has read or written
Touched(s) == mcontext.touched[s] \cup Front(s)

\* neither supercolumn is in the subtree of the other
Unrelated(s, t) == s \notin Subtree(t) /\ t \notin Subtree(s)

\* C21: in the parallel scheduler two tasks that can run at the same time
\* never read or write the same entry of map_rows: the subtrees of two
\* siblings touch disjoint sets of rows, and the rows a parent touches
\* while focusing from a finished child are touched by no task of the
\* subtree of another child.
C21_MapRowsDisjoint ==
  mcontext.nproc > 1 =>
    /\ \A s, t \in Supercolumns :
          Unrelated(s, t) => Touched(s) \cap Touched(t) = {}
    /\ \A p \in Supercolumns : \A e \in mcontext.inlet[p] :
          \A c \in Supercolumns \ {e[1]} :
             symbolic.etree.parent[c] = p =>
               \A d \in Subtree(c) : e[2] \notin Touched(d)

\* a parallel factorization in which a parent focused rows from two of its
\* children through the inlet
C21_Witness ==
  /\ pc = "returned" /\ mcontext.nproc > 1 /\ mcontext.fault = "none"
  /\ \E p \in Supercolumns : \E e, f \in mcontext.inlet[p] : e[1] # f[1]

====
